---- MODULE Spec2Model ----
(***************************************************************************)
(* Process-discovery and RPC substrate of typeglance:                      *)
(*   - MessageChannel (src/src/utils/env.ts): request/response correlation *)
(*     by sequence number, notify, handler dispatch, request timeout;      *)
(*   - discoverMessageChannel (src/src/utils/hooks.ts): the client's       *)
(*     connection race, serialised through createAsyncQueue;               *)
(*   - hostDiscoverableMessageChannel (src/src/utils/hooks.ts): the host's *)
(*     Connection Set, broadcast invoke and close().                       *)
(* Each component has its own specification (SpecMC, SpecDisc, SpecHost);  *)
(* the peer process, the transport and the Global Context Store are the    *)
(* environment: they deliver frames, connection events and snapshots.      *)
(***************************************************************************)
EXTENDS Integers, Sequences, FiniteSets, TLC

(* ------------------------------ bounds --------------------------------- *)
MaxReq == 2
MaxInv == 2
MaxNotes == 1
MaxTicks == 3
TicksPerTimeout == 2
MaxConns == 2
MaxSnapshots == 3
NumHosts == 2
MaxKeys == 2
MaxClose == 2
MaxBroadcasts == 1
MaxTerminate == 2
MaxFiles == 2
NumWriters == 2
NumWatchProcs == 2
MaxSubs == 2
MaxUnsub == 2
MaxNodes == 2
MaxItems == 2
MaxRouted == 2
MaxRouteCalls == 2
MaxFrames == 2
MaxRegs == 3
MaxFxCalls == 3
HbStepsPerInterval == 2

(* ------------------------- program constants --------------------------- *)
TIMEOUT == 3600000

\* The clock advances in steps of TickMs; TIMEOUT is a whole number of them.
TickMs == TIMEOUT \div TicksPerTimeout

\* addHeartbeat(ws, 20000) on the host's side of a connection; the client's
\* side runs the same closure with 15000
HOST_HEARTBEAT_MS == 20000
\* the heartbeat's clock advances in steps of HbStepMs; a timer may run up to
\* one step late
HbStepMs == HOST_HEARTBEAT_MS \div HbStepsPerInterval
\* times further back than this are all alike to the heartbeat
HbAgeCap == 3 * HOST_HEARTBEAT_MS

Null == -1
NoHandler == 0
HandlerIds == {1, 2}
\* the handlers hostDiscoverableMessageChannel sets in its registry
TerminateAny == 3
TerminateUnused == 4
AppKeys == {"a", "b"}
Keys == AppKeys \cup {"terminate-any-host", "terminate-unused-host"}
Bodies == {1, 2}
Chans == 1 .. MaxConns

REQUEST == "REQUEST"
RESPONSE == "RESPONSE"

VARIABLES
  now,         \* wall clock, in ms
  chState,     \* transport of each channel: "none", "open" or "closed"
  chN,         \* MessageChannel.n
  chTable,     \* MessageChannel.responseHandlers: seq number -> promise
  chReqs,      \* the promises made by request(), in call order
  chRegistry,  \* MessageChannel.handlerRegistry.map: key -> handler
  chInv,       \* the runs of messageHandler on REQUEST frames, in arrival order
  chNotes,     \* the unnumbered REQUEST frames put on the wire, in order
  chRespRun,   \* how the last run of messageHandler on a RESPONSE frame ended
  disc,        \* one call of discoverMessageChannel: its closure and its sockets
  host,        \* one call of hostDiscoverableMessageChannel: its closure,
               \* its server and the files it wrote to the Global Context Store
  gcFiles,     \* the directory of one key of the Global Context Store
  gcAlive,     \* the writer processes that are running
  gcW,         \* the closures made by getGlobalContextWatcher, in all processes
  gcReg,       \* globalContextWatchers.get(key) of each watching process
  gcImm,       \* the setImmediate queue of each watching process
  gcSub,       \* the subscribers: callers of watchGlobalContext / getAllGlobalContexts
  hy,          \* one run of dehydrateValue and hydrateValue: input, table, output
  rt,          \* a channel with routes: the receiver's registries, the requests
  ev,          \* MessageChannel.eventEmitter of one channel: listeners, deliveries
  hb,          \* addHeartbeat on each accepted socket: its closure and its peer
  rg,          \* registries made by createHandlerRegistry: the Maps and who holds them
  fx           \* one effect handler: its promise queue, its runs and cleanups

mcVars == <<now, chState, chN, chTable, chReqs, chRegistry, chInv, chNotes,
            chRespRun>>

gcVars == <<gcFiles, gcAlive, gcW, gcReg, gcImm, gcSub>>

\* the variables of the components other than the channel, discovery and host
\* the event emitter and the heartbeats
moreVars == <<ev, hb, rg, fx>>

restVars == <<gcVars, hy, rt, moreVars>>

\* what the Message Channel's own actions leave alone
nonMC == <<disc, host, restVars>>

vars == <<mcVars, disc, host, restVars>>

(* ------------------------------ values --------------------------------- *)
\* A body is a record, so that results, errors and request bodies compare.
Val(v) == [kind |-> "val", v |-> v, key |-> ""]
\* {stack: e.stack} of an Error thrown by the handler of `key`.
StackThrown(key) == [kind |-> "stack:thrown", v |-> 0, key |-> key]
\* {stack: e.stack} of new Error(`no handler for ${key}`)
StackNoHandler(key) == [kind |-> "stack:no handler", v |-> 0, key |-> key]
\* new Error(`timed out after ${TIMEOUT} ms`)
TimeoutError == [kind |-> "timed out", v |-> TIMEOUT, key |-> ""]
\* new ResponseError(body)
ResponseError(body) == [kind |-> "ResponseError", v |-> body.v, key |-> body.key]
NoValue == [kind |-> "none", v |-> 0, key |-> ""]

\* What handler h returns for a body: distinct for distinct handlers and bodies.
HandlerResult(h, body) == Val(10 * h + body.v)

ReqFrame(n, key, body) ==
  [source |-> "MessageChannel", n |-> n, type |-> REQUEST, key |-> key,
   body |-> body, rn |-> Null, isError |-> FALSE]

RespFrame(rn, isError, body) ==
  [source |-> "MessageChannel", n |-> Null, type |-> RESPONSE, key |-> "",
   body |-> body, rn |-> rn, isError |-> isError]

\* no frame: the settlement did not come from a frame
NoFrame ==
  [source |-> "", n |-> Null, type |-> "", key |-> "", body |-> NoValue,
   rn |-> Null, isError |-> FALSE]

EmptyTable == [x \in {} |-> 0]

TableDelete(t, n) == [x \in DOMAIN t \ {n} |-> t[x]]

TableSet(t, n, k) == (n :> k) @@ t

(* --------------------------- MessageChannel ---------------------------- *)

\* createWebSocketMessageChannel.send: throws on a closed socket
SendThrows(c) == chState[c] = "closed"

\* Mutant of NextSeq: n is not incremented.
NextSeqStuck(c) == chN[c]

\* sendNumbered: const n = this.n++
NextSeq(c) == chN[c] + 1

\* request(): this.responseHandlers.set(n, {resolve, reject, timeout})
RegisterPending(t, n, k) == TableSet(t, n, k)

\* request(): sendNumbered, then the promise with its timeout and table entry.
\* A throwing send leaves request() before the promise is made; n is used up.
ReqsAfterRequest(c, key, body) ==
  IF SendThrows(c) THEN chReqs[c]
  ELSE Append(chReqs[c],
         [n |-> chN[c], key |-> key, body |-> body, status |-> "pending",
          value |-> NoValue, by |-> NoFrame, sentAt |-> now,
          timer |-> "armed", responded |-> FALSE])

TableAfterRequest(c) ==
  IF SendThrows(c) THEN chTable[c]
  ELSE RegisterPending(chTable[c], chN[c], Len(chReqs[c]) + 1)

Request(c, key, body) ==
  /\ chState[c] # "none"
  /\ Len(chReqs[c]) < MaxReq
  /\ chN[c] < MaxReq + 1
  /\ chN' = [chN EXCEPT ![c] = NextSeq(c)]
  /\ chReqs' = [chReqs EXCEPT ![c] = ReqsAfterRequest(c, key, body)]
  /\ chTable' = [chTable EXCEPT ![c] = TableAfterRequest(c)]
  /\ UNCHANGED <<now, chState, chRegistry, chInv, chNotes, chRespRun>>

\* MessageChannel.send of a REQUEST message: a frame with no sequence number,
\* no promise and no table entry
Notify(c, key, body) ==
  /\ chState[c] = "open"
  /\ Len(chNotes[c]) < MaxNotes
  /\ chNotes' = [chNotes EXCEPT ![c] = Append(@, ReqFrame(Null, key, body))]
  /\ UNCHANGED <<now, chState, chN, chTable, chReqs, chRegistry, chInv,
                 chRespRun>>

\* handle(key, handler): handlerRegistry.set
Handle(c, key, h) ==
  /\ chState[c] # "none"
  /\ chRegistry[c][key] # h
  /\ chRegistry' = [chRegistry EXCEPT ![c][key] = h]
  /\ UNCHANGED <<now, chState, chN, chTable, chReqs, chInv, chNotes, chRespRun>>

\* Mutant of WantsResponse: the `n != null` test is missing.
AlwaysWantsResponse(n) == TRUE

\* if (n != null) this.respond(...)
WantsResponse(n) == n # Null

\* Mutant of Respond: the frame carries the channel's own counter, not the
\* request's sequence number.
RespondOwnSeq(c, n, isError, body) ==
  [frame |-> RespFrame(chN[c], isError, body), sent |-> ~SendThrows(c),
   raised |-> FALSE]

\* Mutant of Respond: no try / catch around the send.
RespondNoCatch(c, n, isError, body) ==
  [frame |-> RespFrame(n, isError, body), sent |-> ~SendThrows(c),
   raised |-> SendThrows(c)]

\* respond(n, isError, body): the RESPONSE frame, whether send took it, and
\* whether respond's promise was rejected: a throwing send is caught and the
\* frame dropped
Respond(c, n, isError, body) ==
  [frame |-> RespFrame(n, isError, body), sent |-> ~SendThrows(c),
   raised |-> FALSE]

\* the respond calls of one run of messageHandler on a REQUEST frame
RespondCalls(c, n, isError, body) ==
  IF WantsResponse(n) THEN <<Respond(c, n, isError, body)>> ELSE <<>>

\* this.handlerRegistry.map.get(key)
GetHandler(c, key) == chRegistry[c][key]

\* messageHandler, REQUEST branch up to `await requestHandler(body)`.
\* A missing handler throws at once and is answered in the same step.
ReceiveRequest(c, n, key, body) ==
  /\ chState[c] = "open"
  /\ Len(chInv[c]) < MaxInv
  /\ LET h == GetHandler(c, key) IN
     chInv' = [chInv EXCEPT ![c] = Append(@,
        IF h = NoHandler
        THEN [n |-> n, key |-> key, body |-> body, h |-> h, st |-> "nohandler",
              resp |-> RespondCalls(c, n, TRUE, StackNoHandler(key))]
        ELSE [n |-> n, key |-> key, body |-> body, h |-> h, st |-> "running",
              resp |-> <<>>])]
  /\ UNCHANGED <<now, chState, chN, chTable, chReqs, chRegistry, chNotes,
                 chRespRun>>

\* messageHandler, REQUEST branch after the await: the handler returned
\* (ok) or threw / rejected with an Error.
HandlerDone(c, i, ok) ==
  /\ i \in 1 .. Len(chInv[c])
  /\ chInv[c][i].st = "running"
  /\ LET inv == chInv[c][i] IN
     chInv' = [chInv EXCEPT ![c][i] =
        IF ok
        THEN [@ EXCEPT !.st = "returned",
                !.resp = RespondCalls(c, inv.n, FALSE,
                                      HandlerResult(inv.h, inv.body))]
        ELSE [@ EXCEPT !.st = "threw",
                !.resp = RespondCalls(c, inv.n, TRUE, StackThrown(inv.key))]]
  /\ UNCHANGED <<now, chState, chN, chTable, chReqs, chRegistry, chNotes,
                 chRespRun>>

\* Mutant of LookupResponseHandler: responses are matched to the oldest
\* pending request instead of by sequence number.
LookupOldestPending(c, requestN) ==
  IF DOMAIN chTable[c] = {} THEN Null
  ELSE chTable[c][CHOOSE n \in DOMAIN chTable[c] :
                    \A m \in DOMAIN chTable[c] : n <= m]

\* this.responseHandlers.get(requestN): the promise, or Null
LookupResponseHandler(c, requestN) ==
  IF requestN \in DOMAIN chTable[c] THEN chTable[c][requestN] ELSE Null

\* resolve / reject of a promise: only the first settlement counts
Settle(r, status, value, by) ==
  IF r.status = "pending"
  THEN [r EXCEPT !.status = status, !.value = value, !.by = by]
  ELSE r

\* messageHandler, RESPONSE branch, entry found: delete, clearTimeout, settle
ResponseMatched(c, k, requestN, isError, body) ==
  /\ chTable' = [chTable EXCEPT ![c] = TableDelete(@, requestN)]
  /\ chReqs' = [chReqs EXCEPT ![c][k] =
       [Settle(@, IF isError THEN "rejected" ELSE "resolved",
               IF isError THEN ResponseError(body) ELSE body,
               RespFrame(requestN, isError, body))
          EXCEPT !.timer = IF @ = "armed" THEN "cleared" ELSE @,
                 !.responded = TRUE]]
  /\ chRespRun' = [chRespRun EXCEPT ![c] = "settled"]

\* Mutant of ResponseUnexpected: the frame is dropped without an error.
ResponseDropped(c) ==
  /\ chRespRun' = [chRespRun EXCEPT ![c] = "settled"]
  /\ UNCHANGED <<chTable, chReqs>>

\* messageHandler, RESPONSE branch, no entry:
\* throw new Error('unexpected response message')
ResponseUnexpected(c) ==
  /\ chRespRun' = [chRespRun EXCEPT ![c] = "raised"]
  /\ UNCHANGED <<chTable, chReqs>>

ReceiveResponse(c, requestN, isError, body) ==
  /\ chState[c] = "open"
  /\ LET k == LookupResponseHandler(c, requestN) IN
     IF k = Null
     THEN ResponseUnexpected(c)
     ELSE ResponseMatched(c, k, requestN, isError, body)
  /\ UNCHANGED <<now, chState, chN, chRegistry, chInv, chNotes>>

\* Mutant of TimeoutDue: the timer runs one clock step early.
TimeoutDueEarly(r) == now >= r.sentAt + TIMEOUT - TickMs

\* setTimeout(() => reject(...), TIMEOUT): due once TIMEOUT ms have passed
TimeoutDue(r) == now >= r.sentAt + TIMEOUT

\* the timeout callback of request(): reject, and nothing else
RequestTimeout(c, k) ==
  /\ k \in 1 .. Len(chReqs[c])
  /\ chReqs[c][k].timer = "armed"
  /\ TimeoutDue(chReqs[c][k])
  /\ chReqs' = [chReqs EXCEPT ![c][k] =
       [Settle(@, "rejected", TimeoutError, NoFrame) EXCEPT !.timer = "fired"]]
  /\ UNCHANGED <<now, chState, chN, chTable, chRegistry, chInv, chNotes,
                 chRespRun>>

\* A timer that is due runs before the clock moves on.
TimerPending ==
  \E c \in Chans : \E k \in 1 .. Len(chReqs[c]) :
    chReqs[c][k].timer = "armed" /\ TimeoutDue(chReqs[c][k])

Tick ==
  /\ now < MaxTicks * TickMs
  /\ ~TimerPending
  /\ now' = now + TickMs
  /\ UNCHANGED <<chState, chN, chTable, chReqs, chRegistry, chInv, chNotes,
                 chRespRun>>

\* the socket's 'close': readyState CLOSED, no further 'message' events
TransportClose(c) ==
  /\ chState[c] = "open"
  /\ chState' = [chState EXCEPT ![c] = "closed"]
  /\ UNCHANGED <<now, chN, chTable, chReqs, chRegistry, chInv, chNotes,
                 chRespRun>>

(* ------------------------- SpecMC: one channel ------------------------- *)
MCChan == 1

InitRegistry == [key \in Keys |-> IF key = "a" THEN 1 ELSE NoHandler]

\* hostDiscoverableMessageChannel has not been called
HostIdle ==
  [started |-> FALSE, closed |-> FALSE, listening |-> FALSE,
   registry |-> InitRegistry, connections |-> <<>>, hideCallbacks |-> <<>>,
   files |-> {}, serverCloses |-> 0, onCloses |-> 0, closeCalls |-> 0,
   viaTerminate |-> 0, immediates |-> 0, terminates |-> 0, broadcasts |-> <<>>,
   local |-> <<>>]

(* ---------------- Global Context Store: values and idle state ----------- *)
Files == 1 .. MaxFiles
Writers == 1 .. NumWriters
WProcs == 1 .. NumWatchProcs
Subs == 1 .. MaxSubs
\* one closure of getGlobalContextWatcher per subscription at most
Watchers == 1 .. MaxSubs

\* `${process.pid}-${++i}.json`: the pid in the name of file f
FileWriter(f) == ((f - 1) % NumWriters) + 1

\* a closure of getGlobalContextWatcher that was not made yet
NoWatcher ==
  [p |-> 0, st |-> "unused", subs |-> {}, cache |-> {}, events |-> <<>>,
   unlinked |-> {}, enoent |-> {}]

\* a subscriber that has not called watchGlobalContext / getAllGlobalContexts
NoSub ==
  [kind |-> "none", w |-> 0, base |-> {}, got |-> FALSE, first |-> {},
   last |-> {}, unsubs |-> 0, timer |-> "none", promise |-> "none",
   value |-> {}]

GCIdle ==
  /\ gcFiles = [f \in Files |-> "none"]
  /\ gcAlive = Writers
  /\ gcW = [w \in Watchers |-> NoWatcher]
  /\ gcReg = [p \in WProcs |-> 0]
  /\ gcImm = [p \in WProcs |-> <<>>]
  /\ gcSub = [s \in Subs |-> NoSub]

\* neither dehydrateValue nor hydrateValue was called
HyIdle ==
  [phase |-> "idle", src |-> "none", heap |-> <<>>, root |-> 0, keys |-> <<>>,
   threw |-> FALSE, table |-> <<>>, out |-> 0]

Routes == {"r1", "r2"}
ROUTED_REQUEST == "routed-request"

\* handlers are told apart by the registry and the key they were set under
RtHandler(reg, key) == [reg |-> reg, key |-> key]
NoRtHandler == RtHandler("none", "")
\* the handler routeMessageChannel registers under ROUTED_REQUEST
RoutedHandler == RtHandler("base", ROUTED_REQUEST)

\* a channel on which routeMessageChannel was not called, empty registries
RtIdle ==
  [base |-> [k \in AppKeys \cup {ROUTED_REQUEST} |-> NoRtHandler],
   routes |-> [r \in Routes |-> [k \in AppKeys |-> NoRtHandler]],
   known |-> {}, calls |-> 0, reqs |-> <<>>]

\* eventEmitter = new EventEmitter(): no listener, nothing delivered
EvIdle == [on |-> {}, once |-> {}, log |-> <<>>, frames |-> 0, last |-> NoFrame]

\* a socket addHeartbeat was not called on
NoHeartbeat ==
  [st |-> "none", peer |-> "none", sinceSent |-> 0, sinceReceived |-> 0,
   due |-> 0, pongsDue |-> 0]

\* createHandlerRegistry was not called: no Map
RgIdle ==
  [objs |-> <<>>, refs |-> <<>>, parent |-> <<>>,
   last |-> [op |-> "none", ref |-> 0, from |-> 0]]

\* createEffectHandler(effect, handleError): queue is the resolved promise of
\* `empty`, nothing was applied
FxIdle == [calls |-> <<>>, queue |-> 0, disposed |-> FALSE, runs |-> <<>>]

MoreIdle ==
  /\ ev = EvIdle /\ hb = [c \in Chans |-> NoHeartbeat]
  /\ rg = RgIdle /\ fx = FxIdle

RestIdle == GCIdle /\ hy = HyIdle /\ rt = RtIdle /\ MoreIdle

InitChannels ==
  /\ now = 0
  /\ chState = [c \in Chans |-> IF c = MCChan THEN "open" ELSE "none"]
  /\ chN = [c \in Chans |-> 0]
  /\ chTable = [c \in Chans |-> EmptyTable]
  /\ chReqs = [c \in Chans |-> <<>>]
  /\ chRegistry = [c \in Chans |-> InitRegistry]
  /\ chInv = [c \in Chans |-> <<>>]
  /\ chNotes = [c \in Chans |-> <<>>]
  /\ chRespRun = [c \in Chans |-> "none"]

\* discoverMessageChannel has not been called
DiscIdle ==
  [finalized |-> FALSE, queue |-> <<>>, running |-> FALSE, timer |-> "none",
   watching |-> FALSE, initial |-> FALSE, passes |-> <<>>, sockets |-> <<>>,
   resolves |-> 0, rejects |-> 0, channel |-> 0]

InitMC == InitChannels /\ disc = DiscIdle /\ host = HostIdle /\ RestIdle

\* The requester's side of the channel: request(), the RESPONSE branch of
\* messageHandler, the request timeout.
MCRequest ==
  /\ \E key \in AppKeys : Request(MCChan, key, Val(1))
  /\ UNCHANGED nonMC

MCNotify ==
  /\ \E key \in AppKeys : Notify(MCChan, key, Val(1))
  /\ UNCHANGED nonMC

MCReceiveResponse ==
  /\ \E rn \in 0 .. MaxReq, isError \in BOOLEAN, b \in Bodies :
       ReceiveResponse(MCChan, rn, isError, Val(b))
  /\ UNCHANGED nonMC

MCRequestTimeout ==
  /\ \E k \in 1 .. MaxReq : RequestTimeout(MCChan, k)
  /\ UNCHANGED nonMC

MCTransportClose == TransportClose(MCChan) /\ UNCHANGED nonMC

MCTick == Tick /\ UNCHANGED nonMC

NextMC ==
  \/ MCRequest
  \/ MCNotify
  \/ MCReceiveResponse
  \/ MCRequestTimeout
  \/ MCTransportClose
  \/ MCTick

SpecMC == InitMC /\ [][NextMC]_vars

\* The receiver's side of the channel: the REQUEST branch of messageHandler
\* and the handlers it runs. The peer numbers its requests from 0.
MCHandle == Handle(MCChan, "b", 2) /\ UNCHANGED nonMC

MCReceiveRequest ==
  /\ \E n \in {Null, Len(chInv[MCChan])}, key \in AppKeys, b \in Bodies :
       ReceiveRequest(MCChan, n, key, Val(b))
  /\ UNCHANGED nonMC

MCHandlerDone ==
  /\ \E i \in 1 .. MaxInv, ok \in BOOLEAN : HandlerDone(MCChan, i, ok)
  /\ UNCHANGED nonMC

NextMCRecv ==
  \/ MCHandle
  \/ MCReceiveRequest
  \/ MCHandlerDone
  \/ MCRequest
  \/ MCNotify
  \/ MCTransportClose

SpecMCRecv == InitMC /\ [][NextMCRecv]_vars

(* ===================== claims on the Message Channel ==================== *)
ReqsOf(c) == {chReqs[c][k] : k \in 1 .. Len(chReqs[c])}
InvsOf(c) == {chInv[c][i] : i \in 1 .. Len(chInv[c])}

\* C3: a request promise that a response frame settled was settled by the
\* frame carrying the promise's own sequence number: resolved with the frame's
\* body when isError is false, rejected with it when isError is true; and the
\* correlation table maps each sequence number to the promise of the request
\* that was sent with it.
C3_SettledByOwnSeq ==
  /\ \A n \in DOMAIN chTable[MCChan] :
       /\ chTable[MCChan][n] \in 1 .. Len(chReqs[MCChan])
       /\ chReqs[MCChan][chTable[MCChan][n]].n = n
  /\ \A r \in ReqsOf(MCChan) :
       /\ r.by # NoFrame => /\ r.by.type = RESPONSE
                            /\ r.by.rn = r.n
                            /\ r.responded
       /\ r.status = "resolved" =>
            r.by # NoFrame /\ ~r.by.isError /\ r.value = r.by.body
       /\ (r.status = "rejected" /\ r.value # TimeoutError) =>
            r.by # NoFrame /\ r.by.isError /\ r.value = ResponseError(r.by.body)
       /\ (r.responded /\ r.timer # "fired") => r.status # "pending"

\* C3 witness: two requests are pending together and the response to the
\* second one arrives first: the second is resolved, the first still pending.
C3_Witness ==
  /\ Len(chReqs[MCChan]) = 2
  /\ chReqs[MCChan][1].status = "pending"
  /\ ~chReqs[MCChan][1].responded
  /\ chReqs[MCChan][2].status = "resolved"
  /\ chReqs[MCChan][2].by.rn = chReqs[MCChan][2].n

\* C4 (as claimed): the correlation table holds exactly the sequence numbers
\* of the requests that have neither received a response nor timed out.
C4_TableIsOutstanding ==
  DOMAIN chTable[MCChan] =
    {r.n : r \in {q \in ReqsOf(MCChan) : ~q.responded /\ q.timer # "fired"}}

\* C5: a request that no response frame has answered is pending as long as
\* less than TIMEOUT ms have passed since it was sent, and once more than
\* TIMEOUT ms have passed it is rejected with the timeout error; it is never
\* rejected before TIMEOUT ms have passed.
C5_TimeoutNotBefore ==
  \A r \in ReqsOf(MCChan) :
    ~r.responded =>
      /\ now < r.sentAt + TIMEOUT => r.status = "pending" /\ r.timer = "armed"
      /\ now > r.sentAt + TIMEOUT =>
           r.status = "rejected" /\ r.value = TimeoutError
      /\ r.status # "pending" =>
           /\ r.status = "rejected"
           /\ r.value = TimeoutError
           /\ now >= r.sentAt + TIMEOUT

\* C5 witness: an unanswered request was rejected by its timeout, and another
\* one, sent later, is still pending at that time.
C5_Witness ==
  /\ \E r \in ReqsOf(MCChan) :
       ~r.responded /\ r.status = "rejected" /\ r.value = TimeoutError
  /\ \E r \in ReqsOf(MCChan) :
       ~r.responded /\ r.status = "pending" /\ now > r.sentAt

\* C6: each run of messageHandler on a REQUEST frame with sequence number n
\* makes no RESPONSE frame while its handler runs and exactly one when it is
\* over, carrying n: isError false with the handler's result when the handler
\* returned, isError true with the {stack} of the thrown error when it threw,
\* isError true with the {stack} of 'no handler for <key>' when the key had no
\* handler. The frame goes on the wire unless the transport is closed.
C6_OneResponsePerRequest ==
  \A inv \in InvsOf(MCChan) :
    inv.n # Null =>
      /\ inv.st = "running" => inv.resp = <<>>
      /\ inv.st # "running" => Len(inv.resp) = 1
      /\ (inv.st = "nohandler") <=> (inv.h = NoHandler)
      /\ inv.st = "returned" =>
           inv.resp[1].frame =
             RespFrame(inv.n, FALSE, HandlerResult(inv.h, inv.body))
      /\ inv.st = "threw" =>
           inv.resp[1].frame = RespFrame(inv.n, TRUE, StackThrown(inv.key))
      /\ inv.st = "nohandler" =>
           inv.resp[1].frame = RespFrame(inv.n, TRUE, StackNoHandler(inv.key))
      /\ \A j \in 1 .. Len(inv.resp) :
           ~inv.resp[j].sent => chState[MCChan] = "closed"

\* C6 witness: numbered requests were answered in all three ways.
C6_Witness ==
  /\ \E inv \in InvsOf(MCChan) :
       inv.n # Null /\ inv.st = "nohandler" /\ Len(inv.resp) = 1
  /\ \E inv \in InvsOf(MCChan) :
       inv.n # Null /\ inv.st \in {"returned", "threw"} /\ Len(inv.resp) = 1
          /\ inv.resp[1].sent

\* C7: a run of messageHandler on a REQUEST frame without a sequence number
\* invokes the handler registered for the key and never makes a RESPONSE
\* frame, whether the handler returns, throws or is missing; and sending such
\* a frame changes neither the correlation table, nor the promises, nor n.
C7_NotifyNoResponse ==
  /\ [](\A inv \in InvsOf(MCChan) :
          inv.n = Null =>
            /\ inv.resp = <<>>
            /\ (inv.st \in {"running", "returned", "threw"}) <=>
                 (inv.h # NoHandler))
  /\ [][chNotes' # chNotes =>
          /\ chTable' = chTable
          /\ chReqs' = chReqs
          /\ chN' = chN]_vars

\* C7 witness: unnumbered requests ended with a throwing handler and with a
\* missing handler, and an unnumbered frame was sent while a request is pending.
C7_Witness ==
  /\ \E inv \in InvsOf(MCChan) : inv.n = Null /\ inv.st = "threw"
  /\ \E inv \in InvsOf(MCChan) : inv.n = Null /\ inv.st = "nohandler"
  /\ chNotes[MCChan] # <<>>
  /\ chTable[MCChan] # EmptyTable

\* C8: a run of messageHandler on a RESPONSE frame whose sequence number is
\* not in the correlation table ends in a raised error and leaves the table
\* and every promise as they were.
C8_UnexpectedResponseRaises ==
  [][\A rn \in 0 .. MaxReq, isError \in BOOLEAN, b \in Bodies :
       (rn \notin DOMAIN chTable[MCChan]
          /\ ReceiveResponse(MCChan, rn, isError, Val(b)))
       => /\ chRespRun'[MCChan] = "raised"
          /\ chTable' = chTable
          /\ chReqs' = chReqs]_vars

\* C8 witness: a response for an already answered request (a duplicate) was
\* raised as an error while another request is still pending.
C8_Witness ==
  /\ chRespRun[MCChan] = "raised"
  /\ \E r \in ReqsOf(MCChan) : r.responded /\ r.n \notin DOMAIN chTable[MCChan]
  /\ \E r \in ReqsOf(MCChan) : r.status = "pending"


(* ======================= discoverMessageChannel ========================= *)
\* The ports of the hosts that may be advertised under the client's key, and
\* one more config that is advertised under another key.
Ports == 1 .. NumHosts
OtherPort == NumHosts + 1
DiscKey == "k"
AllConfigs ==
  {[port |-> p, key |-> DiscKey] : p \in Ports}
    \cup {[port |-> OtherPort, key |-> "x"]}

\* configs.filter(config => config.key === key), as the ports in array order
MatchingPorts(configs) == {cf.port : cf \in {x \in configs : x.key = DiscKey}}

RECURSIVE PortsInOrder(_)
PortsInOrder(ports) ==
  IF ports = {} THEN <<>>
  ELSE LET p == CHOOSE x \in ports : \A y \in ports : x <= y
       IN <<p>> \o PortsInOrder(ports \ {p})

\* createOpenSocket(port) for each candidate of pass p: new sockets, connecting
RECURSIVE NewSockets(_, _)
NewSockets(p, portSeq) ==
  IF portSeq = <<>> THEN <<>>
  ELSE <<[pass |-> p, port |-> Head(portSeq), st |-> "connecting"]>>
         \o NewSockets(p, Tail(portSeq))

\* Mutant of Finalize: the Global Context subscription is kept.
FinalizeKeepWatching(d) ==
  [d EXCEPT !.finalized = TRUE, !.queue = <<>>,
            !.timer = IF @ = "armed" THEN "cleared" ELSE @]

\* finalize(): finalized = true; queue.clear(); unwatch(); clearTimeout(timeout)
Finalize(d) ==
  [d EXCEPT !.finalized = TRUE, !.queue = <<>>, !.watching = FALSE,
            !.timer = IF @ = "armed" THEN "cleared" ELSE @]

\* the thunk the timeout enqueues: if (!finalized) { finalize(); reject(...) }
TimeoutThunk(d) ==
  IF ~d.finalized THEN [Finalize(d) EXCEPT !.rejects = @ + 1] ELSE d

\* the thunk a snapshot enqueues, up to Promise.all: one socket per candidate
StartPass(d, p) ==
  [d EXCEPT !.passes[p].st = "running",
            !.sockets = @ \o NewSockets(p,
                          PortsInOrder(MatchingPorts(d.passes[p].configs)))]

\* createAsyncQueue.enqueue's loop: while (queue.length) await queue.shift()()
\* It runs on until a thunk has connection attempts to wait for.
RECURSIVE Drain(_)
Drain(d) ==
  IF d.queue = <<>> THEN [d EXCEPT !.running = FALSE]
  ELSE LET t == Head(d.queue)
           rest == [d EXCEPT !.queue = Tail(@)]
       IN IF t.kind = "timeout"
          THEN Drain(TimeoutThunk(rest))
          ELSE IF MatchingPorts(d.passes[t.id].configs) = {}
               THEN Drain([rest EXCEPT !.passes[t.id].st = "done"])
               ELSE StartPass(rest, t.id)

\* Mutant of Enqueue: the `running` flag is not looked at.
EnqueueReentrant(d, thunk) ==
  Drain([d EXCEPT !.queue = Append(@, thunk), !.running = TRUE])

\* createAsyncQueue.enqueue(cb)
Enqueue(d, thunk) ==
  LET pushed == [d EXCEPT !.queue = Append(@, thunk)]
  IN IF ~d.running THEN Drain([pushed EXCEPT !.running = TRUE]) ELSE pushed

\* the callback given to watchDiscoverableChannels
WatchCallback(d, configs) ==
  IF d.finalized THEN d
  ELSE LET p == Len(d.passes) + 1
       IN Enqueue([d EXCEPT !.passes = Append(@,
                      [configs |-> configs, hostSelected |-> FALSE,
                       st |-> "queued"])],
                  [kind |-> "pass", id |-> p])

\* Mutant of ThenBranch: hostSelected is not looked at.
ThenBranchNoCheck(hostSelected) == "select"

\* the branch of createOpenSocket(...).then for an opened socket
ThenBranch(hostSelected) == IF hostSelected THEN "close" ELSE "select"

\* Promise.all of a pass is over when none of its sockets is connecting
PassOver(d, p) ==
  \A i \in 1 .. Len(d.sockets) :
    d.sockets[i].pass = p => d.sockets[i].st # "connecting"

\* after a socket's promise settled: the pass may be over, the queue goes on
AfterSocket(d, p) ==
  IF PassOver(d, p) THEN Drain([d EXCEPT !.passes[p].st = "done"]) ELSE d

\* discoverMessageChannel is called: the timeout is set, the store is watched
\* and the watcher schedules its first delivery
DiscStart ==
  /\ disc = DiscIdle
  /\ disc' = [disc EXCEPT !.timer = "armed", !.watching = TRUE,
                          !.initial = TRUE]
  /\ UNCHANGED <<mcVars, host, restVars>>

\* subscribe's setImmediate: the first snapshot; unsubscribe does not cancel it
DiscInitialSnapshot(configs) ==
  /\ disc.initial
  /\ Len(disc.passes) < MaxSnapshots
  /\ disc' = WatchCallback([disc EXCEPT !.initial = FALSE], configs)
  /\ UNCHANGED <<mcVars, host, restVars>>

\* emit(): a later snapshot, to the subscribers of that moment
DiscSnapshot(configs) ==
  /\ disc.watching
  /\ Len(disc.passes) < MaxSnapshots
  /\ disc' = WatchCallback(disc, configs)
  /\ UNCHANGED <<mcVars, host, restVars>>

\* Mutant of TimeoutCallback: the rejection is not queued, it runs at once.
TimeoutCallbackDirect(d) == TimeoutThunk([d EXCEPT !.timer = "fired"])

\* the callback of setTimeout(..., timeoutMilliseconds): queue.enqueue(thunk)
TimeoutCallback(d) ==
  Enqueue([d EXCEPT !.timer = "fired"], [kind |-> "timeout", id |-> 0])

\* the setTimeout of discoverMessageChannel runs
DiscTimeout ==
  /\ disc.timer = "armed"
  /\ disc' = TimeoutCallback(disc)
  /\ UNCHANGED <<mcVars, host, restVars>>

\* ws 'open' of socket i: createOpenSocket resolves with it, then the callback
DiscSocketOpen(i) ==
  /\ i \in 1 .. Len(disc.sockets)
  /\ disc.sockets[i].st = "connecting"
  /\ LET p == disc.sockets[i].pass
         branch == ThenBranch(disc.passes[p].hostSelected)
     IN disc' =
          IF branch = "close"
          THEN AfterSocket([disc EXCEPT !.sockets[i].st = "closed"], p)
          ELSE AfterSocket(
                 [Finalize([disc EXCEPT !.sockets[i].st = "open",
                                        !.passes[p].hostSelected = TRUE])
                    EXCEPT !.resolves = @ + 1,
                           !.channel = IF @ = 0 THEN i ELSE @], p)
  /\ UNCHANGED <<mcVars, host, restVars>>

\* ws 'error' or the 65 ms timer of socket i: closed, resolved with null
DiscSocketFail(i) ==
  /\ i \in 1 .. Len(disc.sockets)
  /\ disc.sockets[i].st = "connecting"
  /\ disc' = AfterSocket([disc EXCEPT !.sockets[i].st = "failed"],
                         disc.sockets[i].pass)
  /\ UNCHANGED <<mcVars, host, restVars>>

InitDisc == InitChannels /\ disc = DiscIdle /\ host = HostIdle /\ RestIdle

NextDisc ==
  \/ DiscStart
  \/ \E configs \in SUBSET AllConfigs : DiscInitialSnapshot(configs)
  \/ \E configs \in SUBSET AllConfigs : DiscSnapshot(configs)
  \/ DiscTimeout
  \/ \E i \in 1 .. MaxSnapshots * NumHosts : DiscSocketOpen(i)
  \/ \E i \in 1 .. MaxSnapshots * NumHosts : DiscSocketFail(i)

SpecDisc == InitDisc /\ [][NextDisc]_vars

(* ================== claims on discoverMessageChannel ==================== *)
DSockets == {i \in 1 .. Len(disc.sockets) : TRUE}
OpenSockets == {i \in DSockets : disc.sockets[i].st = "open"}
Connecting == {i \in DSockets : disc.sockets[i].st = "connecting"}
TimeoutQueued ==
  \E j \in 1 .. Len(disc.queue) : disc.queue[j].kind = "timeout"

\* C1: discovery resolves at most once; the sockets of the discovery that are
\* open are exactly the one socket of the channel it resolved with, so every
\* other socket that opened, in this pass or another, was closed; and once
\* discovery has resolved and no attempt is in flight, exactly one socket of
\* the discovery is open.
C1_OneOpenChannel ==
  /\ disc.resolves <= 1
  /\ Cardinality(OpenSockets) = disc.resolves
  /\ disc.resolves = 1 => OpenSockets = {disc.channel}
  /\ disc.resolves = 0 => disc.channel = 0
  /\ disc.resolves = 1 => disc.rejects = 0
  /\ (disc.resolves = 1 /\ Connecting = {}) =>
        /\ Cardinality(OpenSockets) = 1
        /\ \A i \in DSockets \ OpenSockets :
             disc.sockets[i].st \in {"closed", "failed"}

\* C1 witness: two hosts under the key were attempted in one pass and both
\* handshakes completed: one socket is the channel, the other was closed.
C1_Witness ==
  /\ disc.resolves = 1
  /\ Connecting = {}
  /\ \E i \in DSockets :
       /\ disc.sockets[i].st = "closed"
       /\ disc.sockets[i].pass = disc.sockets[disc.channel].pass

\* C2 (as claimed): once the timeout has elapsed with no handshake completed
\* before it, discovery never resolves.
C2_TimeoutMeansReject == disc.timer = "fired" => disc.resolves = 0

\* C2 (amended): once the timeout's thunk has run in the queue with no
\* handshake completed before it, discovery has rejected, once, and never
\* resolves; after the rejection no connection attempt is started, no socket
\* of the discovery is open or connecting, nothing is queued or running, and
\* the Global Context subscription is released.
C2_RejectAfterQueuedTimeout ==
  /\ [](/\ disc.rejects <= 1
        /\ (disc.timer = "fired" /\ ~TimeoutQueued /\ disc.resolves = 0)
             => disc.rejects = 1
        /\ disc.rejects = 1 =>
             /\ disc.resolves = 0
             /\ disc.timer = "fired"
             /\ disc.finalized
             /\ ~disc.watching
             /\ OpenSockets = {} /\ Connecting = {}
             /\ disc.queue = <<>> /\ ~disc.running)
  /\ [][disc.rejects = 1 =>
          /\ disc.sockets' = disc.sockets
          /\ disc.rejects' = 1
          /\ disc.resolves' = 0]_vars

\* C2 witness: discovery was rejected by its timeout after a pass whose
\* attempts all failed.
C2_Witness ==
  /\ disc.rejects = 1
  /\ disc.sockets # <<>>
  /\ ~disc.initial
  /\ \E p \in 1 .. Len(disc.passes) : disc.passes[p].st = "done"


(* =================== hostDiscoverableMessageChannel ===================== *)
\* the files exposeDiscoverableChannelConfig writes, one per client key
HostFiles(nKeys) == 1 .. nKeys

RECURSIVE SeqOfRange(_, _)
SeqOfRange(a, b) == IF a > b THEN <<>> ELSE <<a>> \o SeqOfRange(a + 1, b)

SeqToSet(q) == {q[j] : j \in 1 .. Len(q)}

\* Mutant of SeqRemove: nothing is deleted.
SeqRemoveNothing(q, x) == q

\* connections.delete(messageChannel): a Set keeps the insertion order
RECURSIVE SeqRemove(_, _)
SeqRemove(q, x) ==
  IF q = <<>> THEN <<>>
  ELSE IF Head(q) = x THEN SeqRemove(Tail(q), x)
       ELSE <<Head(q)>> \o SeqRemove(Tail(q), x)

\* handlerRegistry.set('terminate-any-host', ...) and 'terminate-unused-host'
WithTerminateHandlers(registry) ==
  [registry EXCEPT !["terminate-any-host"] = TerminateAny,
                   !["terminate-unused-host"] = TerminateUnused]

\* hostDiscoverableMessageChannel({clientKeys, onClose, handlerRegistry}):
\* the server listens, the terminate handlers are set, one file per key
HostStart(nKeys) ==
  /\ ~host.started
  /\ host' = [host EXCEPT !.started = TRUE, !.listening = TRUE,
                          !.registry = WithTerminateHandlers(@),
                          !.hideCallbacks = SeqOfRange(1, nKeys),
                          !.files = HostFiles(nKeys)]
  /\ UNCHANGED <<mcVars, disc, restVars>>

\* createHandlerRegistry(handlerRegistry): new Map(handlerRegistry.map)
CopyRegistry(registry) == registry

(* ------------------------------ addHeartbeat ---------------------------- *)
\* The closure keeps lastSentPing and lastReceivedMessage as Date.now()
\* readings; the model keeps how long ago each was (sinceSent,
\* sinceReceived) and how long until the interval fires (due), which is all
\* the closure compares.

\* addHeartbeat(ws, ms): both readings are taken now, the interval is armed
NewHeartbeat ==
  [st |-> "open", peer |-> "alive", sinceSent |-> 0, sinceReceived |-> 0,
   due |-> HOST_HEARTBEAT_MS, pongsDue |-> 0]

\* ws.on('close', () => clearInterval(interval))
ClosedHeartbeat(h) == [NoHeartbeat EXCEPT !.st = "closed", !.peer = h.peer]

\* Mutant of HeartbeatExpired: the interval never finds the peer silent.
HeartbeatNeverExpires(h) == FALSE

\* lastSentPing - lastReceivedMessage > ms
HeartbeatExpired(h) == h.sinceReceived - h.sinceSent > HOST_HEARTBEAT_MS

\* server.on('connection'): addHeartbeat, a Message Channel over the socket,
\* added to the Connection Set
HostAccept(c) ==
  /\ host.listening
  /\ chState[c] = "none"
  /\ \A x \in Chans : x < c => chState[x] # "none"
  /\ chState' = [chState EXCEPT ![c] = "open"]
  /\ chRegistry' = [chRegistry EXCEPT ![c] = CopyRegistry(host.registry)]
  /\ host' = [host EXCEPT !.connections = Append(@, c)]
  /\ hb' = [hb EXCEPT ![c] = NewHeartbeat]
  /\ UNCHANGED <<now, chN, chTable, chReqs, chInv, chNotes, chRespRun, disc,
               gcVars, hy, rt, ev, rg, fx>>

\* the socket emits 'close': clearInterval(interval) and
\* connections.delete(messageChannel)
HostTransportClose(c) ==
  /\ host.started
  /\ TransportClose(c)
  /\ host' = [host EXCEPT !.connections = SeqRemove(@, c)]
  /\ hb' = [hb EXCEPT ![c] = ClosedHeartbeat(@)]
  /\ UNCHANGED <<disc, gcVars, hy, rt, ev, rg, fx>>

\* time passes: one step on every running heartbeat. A due interval runs
\* before a second step passes.
HbElapse ==
  /\ \E c \in Chans : hb[c].st = "open"
  /\ \A c \in Chans : hb[c].st = "open" => hb[c].due >= 0
  /\ hb' = [c \in Chans |->
              IF hb[c].st \in {"open", "closing"}
              THEN [hb[c] EXCEPT
                      !.sinceSent = IF @ + HbStepMs > HbAgeCap THEN HbAgeCap
                                    ELSE @ + HbStepMs,
                      !.sinceReceived = IF @ + HbStepMs > HbAgeCap THEN HbAgeCap
                                        ELSE @ + HbStepMs,
                      !.due = IF hb[c].st = "open" THEN @ - HbStepMs ELSE @]
              ELSE hb[c]]
  /\ UNCHANGED <<mcVars, disc, host, gcVars, hy, rt, ev, rg, fx>>

\* the interval callback: if (lastSentPing - lastReceivedMessage > ms)
\* ws.close(); else { lastSentPing = Date.now(); ws.ping() }. A peer that is
\* there answers a ping with a pong.
HbTick(c) ==
  /\ hb[c].st = "open"
  /\ hb[c].due <= 0
  /\ hb' = [hb EXCEPT ![c] =
              IF HeartbeatExpired(hb[c])
              THEN [@ EXCEPT !.st = "closing", !.due = 0, !.pongsDue = 0]
              ELSE [@ EXCEPT !.sinceSent = 0, !.due = HOST_HEARTBEAT_MS,
                             !.pongsDue = IF hb[c].peer = "alive" THEN 1 ELSE 0]]
  /\ UNCHANGED <<mcVars, disc, host, gcVars, hy, rt, ev, rg, fx>>

\* ws.on('ping'): interval.refresh(); lastReceivedMessage = Date.now()
HbPing(c) ==
  /\ hb[c].st = "open" /\ hb[c].peer = "alive"
  /\ hb[c].sinceReceived # 0 \/ hb[c].due # HOST_HEARTBEAT_MS
  /\ hb' = [hb EXCEPT ![c] = [@ EXCEPT !.sinceReceived = 0,
                                       !.due = HOST_HEARTBEAT_MS]]
  /\ UNCHANGED <<mcVars, disc, host, gcVars, hy, rt, ev, rg, fx>>

\* ws.on('pong'): lastReceivedMessage = Date.now()
HbPong(c) ==
  /\ hb[c].st = "open" /\ hb[c].pongsDue > 0
  /\ hb' = [hb EXCEPT ![c] = [@ EXCEPT !.sinceReceived = 0, !.pongsDue = 0]]
  /\ UNCHANGED <<mcVars, disc, host, gcVars, hy, rt, ev, rg, fx>>

\* the peer vanishes: from now on nothing arrives from it, no ping, no pong,
\* no close
HbPeerVanish(c) ==
  /\ hb[c].st = "open" /\ hb[c].peer = "alive"
  /\ hb' = [hb EXCEPT ![c] = [@ EXCEPT !.peer = "vanished", !.pongsDue = 0]]
  /\ UNCHANGED <<mcVars, disc, host, gcVars, hy, rt, ev, rg, fx>>

\* the socket emits 'close': a peer that is there closed it, or ws.close()
\* of the heartbeat has run its course
HbTransportClose(c) ==
  /\ hb[c].st = "closing" \/ (hb[c].st = "open" /\ hb[c].peer = "alive")
  /\ HostTransportClose(c)

\* handlers.invoke(handlerKey, requestMessage):
\* Promise.all(Array.from(connections, child => child.handlers.invoke(...)))
HostInvoke(key, body) ==
  /\ host.started
  /\ Len(host.broadcasts) < MaxBroadcasts
  /\ LET conns == SeqToSet(host.connections) IN
     /\ \A c \in conns : Len(chReqs[c]) < MaxReq
     /\ chN' = [c \in Chans |-> IF c \in conns THEN NextSeq(c) ELSE chN[c]]
     /\ chReqs' = [c \in Chans |->
                     IF c \in conns THEN ReqsAfterRequest(c, key, body)
                     ELSE chReqs[c]]
     /\ chTable' = [c \in Chans |->
                      IF c \in conns THEN TableAfterRequest(c) ELSE chTable[c]]
     /\ host' = [host EXCEPT !.broadcasts = Append(@,
                   [j \in 1 .. Len(host.connections) |->
                      [c |-> host.connections[j],
                       k |-> Len(chReqs'[host.connections[j]])]])]
  /\ UNCHANGED <<now, chState, chRegistry, chInv, chNotes, chRespRun, disc,
               restVars>>

\* the request promise a broadcast holds in one slot
SlotReq(slot) == chReqs[slot.c][slot.k]

\* Promise.all: rejected as soon as one promise is rejected, resolved with
\* the array of all values once every promise is resolved
PromiseAllStatus(slots) ==
  IF \E j \in 1 .. Len(slots) : SlotReq(slots[j]).status = "rejected"
  THEN "rejected"
  ELSE IF \A j \in 1 .. Len(slots) : SlotReq(slots[j]).status = "resolved"
       THEN "resolved"
       ELSE "pending"

PromiseAllValue(slots) == [j \in 1 .. Len(slots) |-> SlotReq(slots[j]).value]

\* a client answers a request of the host: the RESPONSE frame arrives
HostReceiveResponse(c, rn, isError, body) ==
  /\ host.started
  /\ ReceiveResponse(c, rn, isError, body)
  /\ UNCHANGED <<disc, host, restVars>>

\* Mutant of CloseHost: the `closed` flag is not looked at.
CloseHostUnguarded(h) ==
  [h EXCEPT !.closeCalls = @ + 1, !.closed = TRUE,
            !.files = @ \ SeqToSet(h.hideCallbacks), !.hideCallbacks = <<>>,
            !.serverCloses = @ + 1, !.listening = FALSE, !.onCloses = @ + 1]

\* close(): if (!closed) { closed = true; stopHost(); onClose() }
\* stopHost(): hideGlobalContext() unlinks every file and forgets the
\* callbacks; server.close()
CloseHost(h) ==
  IF h.closed THEN [h EXCEPT !.closeCalls = @ + 1]
  ELSE [h EXCEPT !.closeCalls = @ + 1, !.closed = TRUE,
                 !.files = @ \ SeqToSet(h.hideCallbacks),
                 !.hideCallbacks = <<>>,
                 !.serverCloses = @ + 1, !.listening = FALSE,
                 !.onCloses = @ + 1]

\* the caller of hostDiscoverableMessageChannel calls close()
HostClose ==
  /\ host.started
  /\ host.closeCalls + host.immediates < MaxClose
  /\ host' = CloseHost(host)
  /\ UNCHANGED <<mcVars, disc, restVars>>

\* the handlers the host set, run by messageHandler on a REQUEST frame:
\* 'terminate-any-host': setImmediate(() => close())
\* 'terminate-unused-host': if (!connections.size) setImmediate(() => close())
TerminateEffectAlways(h, handler) ==
  IF handler \in {TerminateAny, TerminateUnused}
  THEN [h EXCEPT !.immediates = @ + 1]
  ELSE h

TerminateEffect(h, handler) ==
  IF \/ handler = TerminateAny
     \/ handler = TerminateUnused /\ Len(h.connections) = 0
  THEN [h EXCEPT !.immediates = @ + 1]
  ELSE h

\* a REQUEST frame for one of the terminate keys arrives on a connection
HostReceiveTerminate(c, n, key) ==
  /\ host.started
  /\ host.closeCalls + host.immediates < MaxClose
  /\ host.terminates < MaxTerminate
  /\ ReceiveRequest(c, n, key, Val(1))
  /\ host' = [TerminateEffect(host, GetHandler(c, key))
                EXCEPT !.terminates = @ + 1]
  /\ UNCHANGED <<disc, restVars>>

\* the terminate handler has returned: the response
HostHandlerDone(c, i) ==
  /\ host.started
  /\ HandlerDone(c, i, TRUE)
  /\ UNCHANGED <<disc, host, restVars>>

\* the setImmediate of a terminate handler runs: close()
HostImmediateClose ==
  /\ host.immediates > 0
  /\ host' = [CloseHost(host) EXCEPT !.immediates = @ - 1,
                                     !.viaTerminate = @ + 1]
  /\ UNCHANGED <<mcVars, disc, restVars>>

InitHostChannels ==
  /\ now = 0
  /\ chState = [c \in Chans |-> "none"]
  /\ chN = [c \in Chans |-> 0]
  /\ chTable = [c \in Chans |-> EmptyTable]
  /\ chReqs = [c \in Chans |-> <<>>]
  /\ chRegistry = [c \in Chans |-> InitRegistry]
  /\ chInv = [c \in Chans |-> <<>>]
  /\ chNotes = [c \in Chans |-> <<>>]
  /\ chRespRun = [c \in Chans |-> "none"]

InitHost == InitHostChannels /\ disc = DiscIdle /\ host = HostIdle /\ RestIdle

HostReceiveAnyResponse ==
  \E c \in Chans, isError \in BOOLEAN :
    \E rn \in DOMAIN chTable[c] : HostReceiveResponse(c, rn, isError, Val(1))

NextHost ==
  \/ \E nKeys \in 1 .. MaxKeys : HostStart(nKeys)
  \/ \E c \in Chans : HostAccept(c)
  \/ \E c \in Chans : HostTransportClose(c)
  \/ HostInvoke("a", Val(1))
  \/ HostReceiveAnyResponse
  \/ HostClose
  \/ \E c \in Chans, n \in {0} :
       \E key \in {"terminate-any-host", "terminate-unused-host"} :
         HostReceiveTerminate(c, n, key)
  \/ \E c \in Chans, i \in 1 .. MaxInv : HostHandlerDone(c, i)
  \/ HostImmediateClose

SpecHost == InitHost /\ [][NextHost]_vars

(* --- the host's registry and the registries of its accepted connections -- *)
\* handlerRegistry.set / register on the registry given to and returned by
\* hostDiscoverableMessageChannel
HostRegister(key, h) ==
  /\ host.registry[key] # h
  /\ host' = [host EXCEPT !.registry[key] = h]
  /\ UNCHANGED <<mcVars, disc, restVars>>

\* a REQUEST frame for an application key arrives on an accepted connection
HostReceiveApp(c, n, key) ==
  /\ host.started
  /\ ReceiveRequest(c, n, key, Val(1))
  /\ UNCHANGED <<disc, host, restVars>>

HostStartOne == HostStart(1)
HostAcceptAny == \E c \in Chans : HostAccept(c)
HostRegisterAny == \E key \in AppKeys, h \in HandlerIds : HostRegister(key, h)
HostReceiveAppAny == \E c \in Chans, key \in AppKeys : HostReceiveApp(c, 0, key)
HostHandlerDoneAny == \E c \in Chans, i \in 1 .. MaxInv : HostHandlerDone(c, i)
HostTransportCloseAny == \E c \in Chans : HostTransportClose(c)

NextHostReg ==
  \/ HostStartOne
  \/ HostAcceptAny
  \/ HostRegisterAny
  \/ HostReceiveAppAny
  \/ HostHandlerDoneAny
  \/ HostTransportCloseAny

SpecHostReg == InitHost /\ [][NextHostReg]_vars

(* ------------- the terminate handlers, called remotely and locally ------ *)
TerminateKeys == {"terminate-any-host", "terminate-unused-host"}

\* the owner of the registry returned by hostDiscoverableMessageChannel calls
\* one of the terminate handlers through registryAsHandlers(handlerRegistry)
HostLocalTerminate(key) ==
  /\ host.started
  /\ host.closeCalls + host.immediates < MaxClose
  /\ host.terminates < MaxTerminate
  /\ host' = [TerminateEffect(host, host.registry[key])
                EXCEPT !.terminates = @ + 1, !.local = Append(@, key)]
  /\ UNCHANGED <<mcVars, disc, restVars>>

HostLocalTerminateAny == \E key \in TerminateKeys : HostLocalTerminate(key)
HostReceiveTerminateAny ==
  \E c \in Chans, key \in TerminateKeys : HostReceiveTerminate(c, 0, key)

NextHostTerm ==
  \/ HostStartOne
  \/ HostAcceptAny
  \/ HostTransportCloseAny
  \/ HostReceiveTerminateAny
  \/ HostHandlerDoneAny
  \/ HostLocalTerminateAny
  \/ HostImmediateClose

SpecHostTerm == InitHost /\ [][NextHostTerm]_vars

(* ------------- the host's broadcasts and the request timeouts ----------- *)
HostInvokeA == HostInvoke("a", Val(1))

\* the timeout callback of a request the host made on a connection
HostRequestTimeout ==
  /\ \E c \in Chans, k \in 1 .. MaxReq : RequestTimeout(c, k)
  /\ UNCHANGED nonMC

NextHostTO ==
  \/ HostStartOne
  \/ HostAcceptAny
  \/ HostTransportCloseAny
  \/ HostInvokeA
  \/ HostReceiveAnyResponse
  \/ HostRequestTimeout
  \/ MCTick

SpecHostTO == InitHost /\ [][NextHostTO]_vars

(* ------------------ the host and the heartbeats of its sockets ---------- *)
HbTickAny == \E c \in Chans : HbTick(c)
HbPingAny == \E c \in Chans : HbPing(c)
HbPongAny == \E c \in Chans : HbPong(c)
HbPeerVanishAny == \E c \in Chans : HbPeerVanish(c)
HbTransportCloseAny == \E c \in Chans : HbTransportClose(c)

NextHb ==
  \/ HostStartOne
  \/ HostAcceptAny
  \/ HbElapse
  \/ HbTickAny
  \/ HbPingAny
  \/ HbPongAny
  \/ HbPeerVanishAny
  \/ HbTransportCloseAny

SpecHb == InitHost /\ [][NextHb]_vars

\* timers run, time passes, and a closing socket emits 'close'
FairHb ==
  /\ SpecHb
  /\ WF_vars(HbElapse)
  /\ \A c \in Chans : WF_vars(HbTick(c)) /\ WF_vars(HbTransportClose(c) /\ hb[c].st = "closing")

(* ======================== claims on the host ============================ *)
Broadcasts == {host.broadcasts[b] : b \in 1 .. Len(host.broadcasts)}

AllSettled(slots) ==
  \A j \in 1 .. Len(slots) : SlotReq(slots[j]).status # "pending"

\* C9 (as claimed): once every connection addressed by a broadcast invoke has
\* answered, the broadcast is resolved with an array of one entry per
\* connection, also when the handler of one of the clients threw.
C9_BroadcastNotAborted ==
  \A slots \in Broadcasts :
    AllSettled(slots) =>
      /\ PromiseAllStatus(slots) = "resolved"
      /\ Len(PromiseAllValue(slots)) = Len(slots)

\* C10: after one or more calls of close(), whether made by the caller or by
\* a terminate handler, every file the host wrote to the Global Context Store
\* is retracted, server.close() has been called once and onClose once; before
\* the first call nothing is retracted or closed.
C10_CloseIdempotent ==
  /\ host.closeCalls >= 1 =>
       /\ host.closed
       /\ host.files = {}
       /\ host.hideCallbacks = <<>>
       /\ host.serverCloses = 1
       /\ ~host.listening
       /\ host.onCloses = 1
  /\ (host.started /\ host.closeCalls = 0) =>
       /\ ~host.closed
       /\ host.files = SeqToSet(host.hideCallbacks)
       /\ host.files # {}
       /\ host.serverCloses = 0
       /\ host.listening
       /\ host.onCloses = 0

\* C10 witness: close() ran twice, once of them from a terminate handler,
\* on a host that had published more than one advertisement.
C10_Witness ==
  /\ host.closeCalls >= 2
  /\ host.viaTerminate >= 1
  /\ host.viaTerminate < host.closeCalls


(* ========================= Global Context Store ========================= *)
\* global-context.ts. One key, hence one directory. A file is never
\* rewritten, so its name stands for its content; every file of the model was
\* written after the machine booted (readAll unlinks the older ones).
PURGE_THROTTLE_MS == 5000
PURGE_INTERVAL_MS == 30000
GETALL_TIMEOUT_MS == 500

\* throttle(fn, ms): purge is called when a closure is made (lastCalled = 0)
\* and by setInterval(purge, 30000); the call is dropped when less than ms
\* passed since the last one that ran
Throttled(elapsedMs) == elapsedMs < PURGE_THROTTLE_MS

OnDisk == {f \in Files : gcFiles[f] = "file"}

SetMin(S) == CHOOSE x \in S : \A y \in S : x <= y

RECURSIVE SetToSeq(_)
SetToSeq(S) == IF S = {} THEN <<>> ELSE <<SetMin(S)>> \o SetToSeq(S \ {SetMin(S)})

\* fs.watch: every closure whose watcher is open gets the directory's events
WithEvents(W, q, except) ==
  [w \in Watchers |->
     IF W[w].st = "open" /\ w # except
     THEN [W[w] EXCEPT !.events = @ \o q] ELSE W[w]]

EmitItem(w) == [kind |-> "emit", w |-> w, s |-> 0]
InitialItem(w, s) == [kind |-> "initial", w |-> w, s |-> s]
ErrorItem(w) == [kind |-> "error", w |-> w, s |-> 0]

RECURSIVE Repeat(_, _)
Repeat(x, n) == IF n = 0 THEN <<>> ELSE <<x>> \o Repeat(x, n - 1)

\* the process is inside the synchronous body of getGlobalContextWatcher
Busy(p) == \E w \in Watchers : gcW[w].p = p /\ gcW[w].st = "reading"

Active(s) == gcSub[s].w # 0 /\ s \in gcW[gcSub[s].w].subs

\* exposeGlobalContext(key, context): writeFileSync of a new file
GCExpose(f) ==
  /\ gcFiles[f] = "none"
  /\ \A g \in Files : g < f => gcFiles[g] # "none"
  /\ FileWriter(f) \in gcAlive
  /\ gcFiles' = [gcFiles EXCEPT ![f] = "file"]
  /\ gcW' = WithEvents(gcW, <<f>>, 0)
  /\ UNCHANGED <<gcAlive, gcReg, gcImm, gcSub>>

\* hideGlobalContext(): unlinkSync; ENOENT is ignored
GCRetract(f) ==
  /\ gcFiles[f] = "file"
  /\ FileWriter(f) \in gcAlive
  /\ gcFiles' = [gcFiles EXCEPT ![f] = "unlinked"]
  /\ gcW' = WithEvents(gcW, <<f>>, 0)
  /\ UNCHANGED <<gcAlive, gcReg, gcImm, gcSub>>

\* a writer process ends without retracting
GCWriterDies(pid) ==
  /\ pid \in gcAlive
  /\ \E f \in OnDisk : FileWriter(f) = pid
  /\ gcAlive' = gcAlive \ {pid}
  /\ UNCHANGED <<gcFiles, gcW, gcReg, gcImm, gcSub>>

\* purge: the cached files whose writer fails process.kill(pid, 0) and whose
\* unlinkSync succeeds; they leave the cache and purged is set
PurgeTargets(cache, disk, alive) ==
  {f \in cache : FileWriter(f) \notin alive /\ disk[f] = "file"}

\* purge: the cached files of dead writers whose unlinkSync throws ENOENT;
\* the catch block does nothing, configByFileName.delete is skipped
PurgeMissing(cache, disk, alive) ==
  {f \in cache : FileWriter(f) \notin alive /\ disk[f] # "file"}

Purged(w, targets, missing) ==
  [w EXCEPT !.cache = @ \ targets, !.unlinked = @ \cup targets,
            !.enoent = @ \cup missing]

\* unsubscribe(): subscribers.delete(subscriber); if (!subscribers.size)
\* { globalContextWatchers.delete(key); watcher.close() }
Unsubscribe(W, reg, s, w) ==
  LET subs2 == W[w].subs \ {s} IN
  IF subs2 = {}
  THEN [W |-> [W EXCEPT ![w].subs = {}, ![w].st = "closed",
                        ![w].events = <<>>],
        reg |-> [reg EXCEPT ![W[w].p] = 0]]
  ELSE [W |-> [W EXCEPT ![w].subs = subs2], reg |-> reg]

\* what the subscriber's onChange does with a snapshot, besides unwatch():
\* getAllGlobalContexts: clearTimeout(timeout); resolve(configs)
OnChange(sub, configs) ==
  LET seen == [sub EXCEPT !.got = TRUE, !.last = configs,
                          !.first = IF sub.got THEN @ ELSE configs] IN
  IF sub.kind = "getAll"
  THEN [seen EXCEPT !.timer = IF @ = "armed" THEN "cleared" ELSE @,
                    !.promise = IF @ = "pending" THEN "resolved" ELSE @,
                    !.value = IF sub.promise = "pending" THEN configs ELSE @]
  ELSE seen

\* subscriber.onChange(configs) for one subscriber of closure w
DeliverOne(st, s, w) ==
  LET configs == st.W[w].cache
      sub2 == [st.sub EXCEPT ![s] = OnChange(@, configs)] IN
  IF st.sub[s].kind = "getAll"
  THEN LET u == Unsubscribe(st.W, st.reg, s, w) IN
       [W |-> u.W, reg |-> u.reg, sub |-> sub2]
  ELSE [st EXCEPT !.sub = sub2]

RECURSIVE DeliverAll(_, _, _)
DeliverAll(st, targets, w) ==
  IF targets = {} THEN st
  ELSE DeliverAll(DeliverOne(st, SetMin(targets), w),
                  targets \ {SetMin(targets)}, w)

\* emit(): for (const subscriber of subscribers), read when the immediate runs
EmitTargets(w) == gcW[w].subs

\* onError of getAllGlobalContexts is reject; a watch caller's onError is its own
OnError(sub) ==
  IF sub.kind = "getAll" /\ sub.promise = "pending"
  THEN [sub EXCEPT !.promise = "rejected"] ELSE sub

\* Mutant of NewSub: subscribe() calls onChange itself, with the cache as
\* it is during the call.
NewSubNotified(kind, w) ==
  [NoSub EXCEPT !.kind = kind, !.w = w, !.base = OnDisk,
                !.got = TRUE, !.first = OnDisk, !.last = OnDisk,
                !.timer = IF kind = "getAll" THEN "armed" ELSE "none",
                !.promise = IF kind = "getAll" THEN "pending" ELSE "none"]

\* the first call on a subscriber: its record before subscribe()
NewSub(kind, w) ==
  [NoSub EXCEPT !.kind = kind, !.w = w, !.base = OnDisk,
                !.timer = IF kind = "getAll" THEN "armed" ELSE "none",
                !.promise = IF kind = "getAll" THEN "pending" ELSE "none"]

FreshWatcher == SetMin({w \in Watchers : gcW[w].st = "unused"})

\* watchGlobalContext / getAllGlobalContexts in process p.
\*   an existing closure: subscribe() adds the subscriber and queues its
\*     first notification;
\*   no closure registered: getGlobalContextWatcher runs mkdirSync and
\*     readAll(), which loads every file and calls emit() once per file.
\*     The rest of the body is GCWatchFinish: other processes may act on the
\*     directory between the two.
GCWatch(s, p, kind) ==
  /\ gcSub[s].kind = "none"
  /\ \A t \in Subs : t < s => gcSub[t].kind # "none"
  /\ ~Busy(p)
  /\ IF gcReg[p] # 0
     THEN /\ gcW' = [gcW EXCEPT ![gcReg[p]].subs = @ \cup {s}]
          /\ gcImm' = [gcImm EXCEPT ![p] = Append(@, InitialItem(gcReg[p], s))]
          /\ gcSub' = [gcSub EXCEPT ![s] = NewSub(kind, gcReg[p])]
     ELSE /\ gcW' = [gcW EXCEPT ![FreshWatcher] =
                       [NoWatcher EXCEPT !.p = p, !.st = "reading",
                                         !.cache = OnDisk]]
          /\ gcImm' = [gcImm EXCEPT ![p] =
                         @ \o Repeat(EmitItem(FreshWatcher), Cardinality(OnDisk))]
          /\ gcSub' = [gcSub EXCEPT ![s] = NewSub(kind, FreshWatcher)]
  /\ UNCHANGED <<gcFiles, gcAlive, gcReg>>

\* the rest of getGlobalContextWatcher and subscribe(): purge(), setInterval,
\* emit(), fs.watch(), globalContextWatchers.set, subscribers.add and the
\* subscriber's first notification
GCWatchFinish(p) ==
  \E w \in Watchers, s \in Subs :
    /\ gcW[w].p = p /\ gcW[w].st = "reading" /\ gcSub[s].w = w
    /\ LET targets == PurgeTargets(gcW[w].cache, gcFiles, gcAlive)
           missing == PurgeMissing(gcW[w].cache, gcFiles, gcAlive)
           mine == [Purged(gcW[w], targets, missing)
                      EXCEPT !.st = "open", !.subs = {s}] IN
       /\ gcFiles' = [f \in Files |->
                        IF f \in targets THEN "unlinked" ELSE gcFiles[f]]
       /\ gcW' = [WithEvents(gcW, SetToSeq(targets), w) EXCEPT ![w] = mine]
       /\ gcImm' = [gcImm EXCEPT ![p] =
                      @ \o (IF targets # {} THEN <<EmitItem(w)>> ELSE <<>>)
                        \o <<EmitItem(w), InitialItem(w, s)>>]
       /\ gcReg' = [gcReg EXCEPT ![p] = w]
    /\ UNCHANGED <<gcAlive, gcSub>>

\* setInterval(purge, 30000) of an open closure
GCSweep(w) ==
  /\ gcW[w].st = "open"
  /\ ~Busy(gcW[w].p)
  /\ ~Throttled(PURGE_INTERVAL_MS)
  /\ LET targets == PurgeTargets(gcW[w].cache, gcFiles, gcAlive)
         missing == PurgeMissing(gcW[w].cache, gcFiles, gcAlive) IN
     /\ targets \cup missing # {}
     /\ gcFiles' = [f \in Files |->
                      IF f \in targets THEN "unlinked" ELSE gcFiles[f]]
     /\ gcW' = WithEvents([gcW EXCEPT ![w] = Purged(@, targets, missing)],
                          SetToSeq(targets), 0)
     /\ gcImm' = [gcImm EXCEPT ![gcW[w].p] =
                    @ \o (IF targets # {} THEN <<EmitItem(w)>> ELSE <<>>)]
  /\ UNCHANGED <<gcAlive, gcReg, gcSub>>

\* Mutant of AfterEvent: eventTriggered does not call emit().
AfterEventSilent(imm, w, fails) == imm

\* eventTriggered: handleUnexpectedError(err) when the read fails other than
\* by ENOENT, then emit() in every case
AfterEvent(imm, w, fails) ==
  imm \o (IF fails THEN <<ErrorItem(w)>> ELSE <<>>) \o <<EmitItem(w)>>

\* the fs.watch callback: eventTriggered(filename)
GCEvent(w, fails) ==
  /\ gcW[w].st = "open"
  /\ ~Busy(gcW[w].p)
  /\ gcW[w].events # <<>>
  /\ LET f == Head(gcW[w].events) IN
     gcW' = [gcW EXCEPT ![w].events = Tail(@),
                        ![w].cache = IF fails THEN @
                                     ELSE IF gcFiles[f] = "file"
                                          THEN @ \cup {f} ELSE @ \ {f}]
  /\ gcImm' = [gcImm EXCEPT ![gcW[w].p] = AfterEvent(@, w, fails)]
  /\ UNCHANGED <<gcFiles, gcAlive, gcReg, gcSub>>

\* the next setImmediate callback of process p
GCImmediate(p) ==
  /\ gcImm[p] # <<>>
  /\ ~Busy(p)
  /\ LET it == Head(gcImm[p])
         st == [W |-> gcW, reg |-> gcReg, sub |-> gcSub]
         st2 == IF it.kind = "emit"
                  THEN DeliverAll(st, EmitTargets(it.w), it.w)
                ELSE IF it.kind = "initial"
                  THEN DeliverOne(st, it.s, it.w)
                ELSE [st EXCEPT !.sub =
                        [s \in Subs |-> IF s \in gcW[it.w].subs
                                        THEN OnError(gcSub[s]) ELSE gcSub[s]]]
     IN /\ gcW' = st2.W
        /\ gcReg' = st2.reg
        /\ gcSub' = st2.sub
  /\ gcImm' = [gcImm EXCEPT ![p] = Tail(@)]
  /\ UNCHANGED <<gcFiles, gcAlive>>

\* the caller of watchGlobalContext calls the function it was given
GCUnwatch(s) ==
  /\ gcSub[s].kind = "watch"
  /\ gcSub[s].unsubs < MaxUnsub
  /\ ~Busy(gcW[gcSub[s].w].p)
  /\ LET u == Unsubscribe(gcW, gcReg, s, gcSub[s].w) IN
     /\ gcW' = u.W
     /\ gcReg' = u.reg
  /\ gcSub' = [gcSub EXCEPT ![s].unsubs = @ + 1]
  /\ UNCHANGED <<gcFiles, gcAlive, gcImm>>

\* Mutant of GetAllOnTimeout: the timeout only rejects.
GetAllOnTimeoutNoUnwatch(W, reg, s, w) == [W |-> W, reg |-> reg]

\* the timeout callback of getAllGlobalContexts: unwatch(); reject()
GetAllOnTimeout(W, reg, s, w) == Unsubscribe(W, reg, s, w)

GCGetAllTimeout(s) ==
  /\ gcSub[s].kind = "getAll"
  /\ gcSub[s].timer = "armed"
  /\ ~Busy(gcW[gcSub[s].w].p)
  /\ LET u == GetAllOnTimeout(gcW, gcReg, s, gcSub[s].w) IN
     /\ gcW' = u.W
     /\ gcReg' = u.reg
  /\ gcSub' = [gcSub EXCEPT ![s].timer = "fired",
                            ![s].promise = IF @ = "pending" THEN "rejected"
                                           ELSE @]
  /\ UNCHANGED <<gcFiles, gcAlive, gcImm>>

CoreIdle == InitHostChannels /\ disc = DiscIdle /\ host = HostIdle

InitGC == CoreIdle /\ RestIdle

otherThanGC == <<mcVars, disc, host, hy, rt, moreVars>>

(* --- one watching process, two callers of watchGlobalContext, two writers *)
GCWatchCall ==
  /\ \E s \in Subs : GCWatch(s, 1, "watch")
  /\ UNCHANGED otherThanGC
GCWatchBody ==
  /\ GCWatchFinish(1)
  /\ UNCHANGED otherThanGC
GCExposeAny ==
  /\ \E f \in Files : GCExpose(f)
  /\ UNCHANGED otherThanGC
GCRetractAny ==
  /\ \E f \in Files : GCRetract(f)
  /\ UNCHANGED otherThanGC
GCWriterDiesAny ==
  /\ \E pid \in Writers : GCWriterDies(pid)
  /\ UNCHANGED otherThanGC
GCEventAny ==
  /\ \E w \in Watchers : GCEvent(w, FALSE)
  /\ UNCHANGED otherThanGC
GCSweepAny ==
  /\ \E w \in Watchers : GCSweep(w)
  /\ UNCHANGED otherThanGC
GCImmediateAny ==
  /\ \E p \in WProcs : GCImmediate(p)
  /\ UNCHANGED otherThanGC
GCUnwatchAny ==
  /\ \E s \in Subs : GCUnwatch(s)
  /\ UNCHANGED otherThanGC

NextGC ==
  \/ GCWatchCall
  \/ GCWatchBody
  \/ GCExposeAny
  \/ GCRetractAny
  \/ GCEventAny
  \/ GCImmediateAny
  \/ GCUnwatchAny

SpecGC == InitGC /\ [][NextGC]_vars

\* the event loop of a process runs its I/O callbacks and its immediates, and
\* a synchronous function body runs to its end
FairGC ==
  /\ SpecGC
  /\ WF_vars(GCWatchBody)
  /\ WF_vars(GCEventAny)
  /\ WF_vars(GCImmediateAny)

(* --- a write in two steps: the file is created empty, then filled ------- *)
\* fs.writeFileSync(contextPath, JSON.stringify(context)) opens the path with
\* flag 'w', which creates the file with no content, writes the string and
\* closes it; another process may read the directory and the file between
\* the creation and the write.
GCExposeBegin(f) ==
  /\ gcFiles[f] = "none"
  /\ \A g \in Files : g < f => gcFiles[g] # "none"
  /\ FileWriter(f) \in gcAlive
  /\ gcFiles' = [gcFiles EXCEPT ![f] = "partial"]
  /\ gcW' = WithEvents(gcW, <<f>>, 0)
  /\ UNCHANGED <<gcAlive, gcReg, gcImm, gcSub>>

GCExposeEnd(f) ==
  /\ gcFiles[f] = "partial"
  /\ gcFiles' = [gcFiles EXCEPT ![f] = "file"]
  /\ gcW' = WithEvents(gcW, <<f>>, 0)
  /\ UNCHANGED <<gcAlive, gcReg, gcImm, gcSub>>

\* JSON.parse(fs.readFileSync(...)) of a file whose content is not complete
\* throws a SyntaxError, which has no code: the catch block of eventTriggered
\* takes its else branch
ReadThrowsOther(f) == gcFiles[f] = "partial"

\* the fs.watch callback, the outcome of the read decided by the file
GCRead(w) ==
  /\ gcW[w].events # <<>>
  /\ GCEvent(w, ReadThrowsOther(Head(gcW[w].events)))

GCRWatchCall ==
  /\ \A f \in Files : gcFiles[f] # "partial"
  /\ \E s \in Subs : GCWatch(s, 1, "watch")
  /\ UNCHANGED otherThanGC
GCRExposeBegin ==
  /\ \E f \in Files : GCExposeBegin(f)
  /\ UNCHANGED otherThanGC
GCRExposeEnd ==
  /\ \E f \in Files : GCExposeEnd(f)
  /\ UNCHANGED otherThanGC
GCRReadAny ==
  /\ \E w \in Watchers : GCRead(w)
  /\ UNCHANGED otherThanGC

NextGCRead ==
  \/ GCRWatchCall
  \/ GCWatchBody
  \/ GCRExposeBegin
  \/ GCRExposeEnd
  \/ GCRetractAny
  \/ GCRReadAny
  \/ GCImmediateAny

SpecGCRead == InitGC /\ [][NextGCRead]_vars

(* ==================== claims on the Global Context Store ================ *)
LiveOnDisk == {f \in OnDisk : FileWriter(f) \in gcAlive}

EventPending(s, f) ==
  \E i \in 1 .. Len(gcW[gcSub[s].w].events) : gcW[gcSub[s].w].events[i] = f

\* C12 (as claimed): the first notification a subscriber receives holds every
\* entry that was exposed before its watch call and is not retracted, whether
\* the call made the watcher or joined an existing one.
C12_FirstNotificationComplete ==
  [][\A s \in Subs :
       (~gcSub[s].got /\ gcSub'[s].got) =>
         (gcSub[s].base \cap LiveOnDisk) \subseteq gcSub'[s].first]_vars

\* C13: a notification carries the whole cache of the subscriber's watcher as
\* it is when the notification is delivered; and after an expose or a retract
\* on the watched directory every subscriber that stays subscribed is
\* eventually delivered a set with the exposed entry, respectively without
\* the retracted one.
C13_NotifiedWithFullSet ==
  /\ [][\A s \in Subs :
          (gcSub'[s].got /\ (~gcSub[s].got \/ gcSub'[s].last # gcSub[s].last))
            => gcSub'[s].last = gcW[gcSub[s].w].cache]_vars
  /\ \A s \in Subs, f \in Files :
       /\ (Active(s) /\ gcFiles[f] = "file" /\ EventPending(s, f))
            ~> (\/ ~Active(s)
                \/ gcFiles[f] # "file"
                \/ gcSub[s].got /\ f \in gcSub[s].last)
       /\ (Active(s) /\ gcFiles[f] = "unlinked" /\ EventPending(s, f))
            ~> (\/ ~Active(s)
                \/ gcSub[s].got /\ f \notin gcSub[s].last)

\* C13 witness: two subscribers of one watcher were both told of an entry that
\* was exposed after they subscribed, and of the retraction of another.
C13_Witness ==
  \E f, g \in Files :
    /\ gcFiles[f] = "file" /\ gcFiles[g] = "unlinked"
    /\ \A s \in Subs :
         /\ Active(s) /\ gcSub[s].w = gcSub[1].w
         /\ gcSub[s].base = {}
         /\ gcSub[s].last = {f}

(* --- two watching processes, one subscriber each, writers that die ------- *)
\* subscriber p is the caller in process p
GCSWatchCall ==
  /\ \E p \in WProcs : p \in Subs /\ GCWatch(p, p, "watch")
  /\ UNCHANGED otherThanGC

GCSWatchBody ==
  /\ \E p \in WProcs : GCWatchFinish(p)
  /\ UNCHANGED otherThanGC

\* one entry is enough for a sweep to have something to find
GCSExpose == GCExpose(1) /\ UNCHANGED otherThanGC

NextGCSweep ==
  \/ GCSWatchCall
  \/ GCSWatchBody
  \/ GCSExpose
  \/ GCWriterDiesAny
  \/ GCEventAny
  \/ GCSweepAny
  \/ GCImmediateAny

SpecGCSweep == InitGC /\ [][NextGCSweep]_vars

\* as FairGC, and the purge interval of an open watcher keeps firing
FairGCSweep ==
  /\ SpecGCSweep
  /\ WF_vars(GCSWatchBody)
  /\ WF_vars(GCEventAny)
  /\ WF_vars(GCSweepAny)
  /\ WF_vars(GCImmediateAny)

\* C14 (as claimed): once the writer of an entry has died, a sweep of every
\* watcher that holds the entry removes it from that watcher's cache, the file
\* leaves the directory and the watcher's subscribers are told a set without
\* it, also when the watchers of several processes sweep the directory.
C14_SweepRemovesDeadEntries ==
  \A w \in Watchers, f \in Files :
    (gcW[w].st = "open" /\ f \in gcW[w].cache /\ FileWriter(f) \notin gcAlive)
      ~> (/\ f \notin gcW[w].cache
          /\ gcFiles[f] # "file"
          /\ \A s \in gcW[w].subs : gcSub[s].got /\ f \notin gcSub[s].last)

(* --- one process: watch, unsubscribe (also repeatedly), getAll ----------- *)
GCUWatchCall ==
  /\ \E s \in Subs, kind \in {"watch", "getAll"} : GCWatch(s, 1, kind)
  /\ UNCHANGED otherThanGC

GCUEvent ==
  /\ \E w \in Watchers, fails \in BOOLEAN : GCEvent(w, fails)
  /\ UNCHANGED otherThanGC

GCUGetAllTimeout ==
  /\ \E s \in Subs : GCGetAllTimeout(s)
  /\ UNCHANGED otherThanGC

NextGCSub ==
  \/ GCUWatchCall
  \/ GCWatchBody
  \/ GCSExpose
  \/ GCUEvent
  \/ GCImmediateAny
  \/ GCUnwatchAny
  \/ GCUGetAllTimeout

SpecGCSub == InitGC /\ [][NextGCSub]_vars

\* the event loop runs the immediates and the timers of the process
FairGCSub ==
  /\ SpecGCSub
  /\ WF_vars(GCWatchBody)
  /\ WF_vars(GCUEvent)
  /\ WF_vars(GCImmediateAny)
  /\ WF_vars(GCUGetAllTimeout)

(* --- one process: watch and getAll, events, failed reads and sweeps ----- *)
NextGCAsync ==
  \/ GCUWatchCall
  \/ GCWatchBody
  \/ GCSExpose
  \/ GCWriterDiesAny
  \/ GCUEvent
  \/ GCSweepAny
  \/ GCImmediateAny

SpecGCAsync == InitGC /\ [][NextGCAsync]_vars

LiveWatchers(p) == {w \in Watchers : gcW[w].p = p /\ gcW[w].st = "open"}

\* C15 (as claimed): a process has at most one open watcher for the key, the
\* watcher of every active subscription is the registered one, and it is
\* open; an unsubscribe function called again changes none of this.
C15_OneSharedWatcher ==
  \A p \in WProcs :
    /\ Cardinality(LiveWatchers(p)) <= 1
    /\ \A s \in Subs :
         (Active(s) /\ gcW[gcSub[s].w].p = p) =>
           /\ gcReg[p] = gcSub[s].w
           /\ gcW[gcSub[s].w].st = "open"

GetAlls == {s \in Subs : gcSub[s].kind = "getAll"}

\* C16: the promise of getAll is settled once and keeps its outcome; it is
\* resolved only with the first snapshot delivered to the call; when its
\* 500 ms timer is no longer pending (fired, or cleared by a snapshot) the
\* call's subscription is released and the promise is settled; and every call
\* gets there.
C16_GetAllSettlesOnce ==
  /\ [][\A s \in GetAlls :
          gcSub[s].promise # "pending" =>
            /\ gcSub'[s].promise = gcSub[s].promise
            /\ gcSub'[s].value = gcSub[s].value]_vars
  /\ [](\A s \in GetAlls :
          /\ gcSub[s].promise = "resolved" =>
               gcSub[s].got /\ gcSub[s].value = gcSub[s].first
          /\ gcSub[s].timer # "armed" =>
               ~Active(s) /\ gcSub[s].promise # "pending")
  /\ \A s \in Subs :
       (gcSub[s].kind = "getAll")
         ~> (gcSub[s].promise # "pending" /\ ~Active(s)
             /\ gcSub[s].timer # "armed")

\* C16 witness: one call of getAll was resolved with a snapshot, another was
\* rejected by its timer before any snapshot reached it, and neither is
\* subscribed.
C16_Witness ==
  \E s, t \in GetAlls :
    /\ gcSub[s].promise = "resolved" /\ gcSub[s].timer = "cleared"
    /\ gcSub[t].promise = "rejected" /\ gcSub[t].timer = "fired"
    /\ ~Active(s) /\ ~Active(t)


(* ==================== dehydrateValue / hydrateValue ===================== *)
\* hooks.ts:778-864. A value is a reference: to an object or an array of the
\* heap, or a primitive. An object is given by the values of its own keys in
\* Object.entries order, an array by its elements.
Nodes == 1 .. MaxNodes
NodeRef(n) == [t |-> "node", n |-> n]
PrimRef(v) == [t |-> "prim", n |-> v]
NullRef == [t |-> "null", n |-> 0]
UndefRef == [t |-> "undef", n |-> 0]

Leaves == {PrimRef(1), NullRef}
Refs == {NodeRef(n) : n \in Nodes} \cup Leaves

SeqsUpTo(S, n) == UNION {[1 .. m -> S] : m \in 0 .. n}

NodeVals == [kind : {"obj", "arr"}, items : SeqsUpTo(Refs, MaxItems)]
Heaps == [Nodes -> NodeVals]

\* the entries of a Dehydrated table
PrimEntry(r) == [kind |-> "prim", v |-> r, items |-> <<>>]
RefsEntry(kind, ids) == [kind |-> kind, v |-> UndefRef, items |-> ids]
\* { id: nextId++, value: undefined }
Placeholder == PrimEntry(UndefRef)

InCache(keys, r) == \E i \in 1 .. Len(keys) : keys[i] = r

\* Mutant of IdOf: a revisited value is given the number of cache entries up
\* to it, not its id.
IdOfPosition(keys, r) == CHOOSE i \in 1 .. Len(keys) : keys[i] = r

IdOf(keys, r) == (CHOOSE i \in 1 .. Len(keys) : keys[i] = r) - 1

\* serialize(value): st.keys is the cache in insertion order (the id of a key
\* is its position, from 0), st.vals the entry.value of each id.
\* typeof null is 'object', so null reaches Object.entries(null), which throws.
RECURSIVE Serialize(_, _, _)
RECURSIVE SerializeItems(_, _, _, _)
Serialize(H, st, r) ==
  IF st.threw THEN [st |-> st, id |-> 0]
  ELSE IF InCache(st.keys, r) THEN [st |-> st, id |-> IdOf(st.keys, r)]
  ELSE
    LET id == Len(st.keys)
        st1 == [st EXCEPT !.keys = Append(@, r),
                          !.vals = Append(@, Placeholder)] IN
    IF r.t = "null" THEN [st |-> [st1 EXCEPT !.threw = TRUE], id |-> id]
    ELSE IF r.t # "node"
      THEN [st |-> [st1 EXCEPT !.vals[id + 1] = PrimEntry(r)], id |-> id]
    ELSE
      LET res == SerializeItems(H, st1, H[r.n].items, <<>>) IN
      [st |-> IF res.st.threw THEN res.st
              ELSE [res.st EXCEPT !.vals[id + 1] =
                      RefsEntry(H[r.n].kind, res.ids)],
       id |-> id]

SerializeItems(H, st, items, acc) ==
  IF items = <<>> \/ st.threw THEN [st |-> st, ids |-> acc]
  ELSE LET one == Serialize(H, st, Head(items)) IN
       SerializeItems(H, one.st, Tail(items), Append(acc, one.id))

\* dehydrateValue(type): Object.fromEntries of the cache, id -> value
dehydrateValue(H, root) ==
  LET res == Serialize(H, [keys |-> <<>>, vals |-> <<>>, threw |-> FALSE], root)
  IN [threw |-> res.st.threw,
      keys |-> res.st.keys,
      table |-> [t |-> "table",
                 at |-> [i \in 0 .. Len(res.st.vals) - 1 |-> res.st.vals[i + 1]]]]

\* value[k]: undefined when the table has no entry k
Lookup(at, k) == IF k \in DOMAIN at THEN at[k] ELSE PrimEntry(UndefRef)

\* cache.get(val).value for an array entry: cacheEntry.value is assigned only
\* when val.map(...) has returned, it is undefined until then
ArrayCacheHit(st, k) == IF k \in st.done THEN NodeRef(k) ELSE UndefRef

\* deserialize(value[k]): st.started are the entries in the cache, st.done
\* those whose cacheEntry.value is assigned, st.R the reconstructed objects
\* and arrays, named by the entry they were made from
RECURSIVE Deserialize(_, _, _)
RECURSIVE DeserializeItems(_, _, _, _)
Deserialize(at, st, k) ==
  LET val == Lookup(at, k) IN
  IF val.kind = "prim" THEN [st |-> st, ref |-> val.v]
  ELSE IF k \in st.started THEN [st |-> st, ref |-> ArrayCacheHit(st, k)]
  ELSE IF val.kind = "arr"
    THEN LET res == DeserializeItems(
                      at, [st EXCEPT !.started = @ \cup {k}], val.items, <<>>)
         IN [st |-> [res.st EXCEPT !.done = @ \cup {k},
                                   !.R[k] = [kind |-> "arr", items |-> res.refs]],
             ref |-> NodeRef(k)]
  ELSE LET res == DeserializeItems(
                    at, [st EXCEPT !.started = @ \cup {k}, !.done = @ \cup {k}],
                    val.items, <<>>)
       IN [st |-> [res.st EXCEPT !.R[k] = [kind |-> "obj", items |-> res.refs]],
           ref |-> NodeRef(k)]

DeserializeItems(at, st, items, acc) ==
  IF items = <<>> THEN [st |-> st, refs |-> acc]
  ELSE LET one == Deserialize(at, st, Head(items)) IN
       DeserializeItems(at, one.st, Tail(items), Append(acc, one.ref))

NoNode == [kind |-> "none", items |-> <<>>]

\* !value || Object.keys(value).length === 0
EmptyInput(input) == input.t # "table" \/ DOMAIN input.at = {}

\* hydrateValue(value)
hydrateValue(input) ==
  IF EmptyInput(input)
  THEN [threw |-> TRUE, root |-> UndefRef, R |-> <<>>]
  ELSE LET res == Deserialize(
                    input.at,
                    [started |-> {}, done |-> {},
                     R |-> [k \in DOMAIN input.at |-> NoNode]], 0)
       IN [threw |-> FALSE, root |-> res.ref, R |-> res.st.R]

(* ---- inputs: value graphs for the round trip, raw tables for hydrate --- *)
RawIds == 0 .. 1
RawEntries ==
  {PrimEntry(PrimRef(1)), RefsEntry("arr", <<>>), RefsEntry("arr", <<0>>),
   RefsEntry("arr", <<1>>), RefsEntry("obj", <<1>>)}
RawTables == UNION {[D -> RawEntries] : D \in SUBSET RawIds}
RawInputs ==
  {[t |-> "null", at |-> <<>>], [t |-> "undefined", at |-> <<>>]}
    \cup {[t |-> "table", at |-> a] : a \in RawTables}

GraphInputs ==
  {[HyIdle EXCEPT !.phase = "input", !.src = "graph", !.heap = H,
                  !.root = r] :
     H \in Heaps, r \in {NodeRef(1)} \cup Leaves}

HyInputs ==
  GraphInputs \cup
  {[HyIdle EXCEPT !.phase = "input", !.src = "raw", !.table = i] :
     i \in RawInputs}

InitHy == CoreIdle /\ GCIdle /\ rt = RtIdle /\ MoreIdle /\ hy \in HyInputs

otherThanHy == <<mcVars, disc, host, gcVars, rt, moreVars>>

HyDehydrate ==
  /\ hy.phase = "input" /\ hy.src = "graph"
  /\ LET d == dehydrateValue(hy.heap, hy.root) IN
     hy' = [hy EXCEPT !.phase = IF d.threw THEN "failed" ELSE "dehydrated",
                      !.threw = d.threw, !.keys = d.keys, !.table = d.table]
  /\ UNCHANGED otherThanHy

HyHydrate ==
  /\ \/ hy.phase = "dehydrated"
     \/ hy.phase = "input" /\ hy.src = "raw"
  /\ hy' = [hy EXCEPT !.phase = "hydrated", !.out = hydrateValue(hy.table)]
  /\ UNCHANGED otherThanHy

NextHy ==
  \/ HyDehydrate
  \/ HyHydrate

SpecHy == InitHy /\ [][NextHy]_vars

(* =============== claims on dehydrateValue / hydrateValue =============== *)
MapRef(keys, r) == IF r.t = "node" THEN NodeRef(IdOf(keys, r)) ELSE r

\* the reconstructed graph equals the input graph, entry by entry, under the
\* one-to-one map from the input's objects and arrays to the ids dehydrate
\* gave them: deep equality and the same reference structure
SameGraph(h) ==
  /\ ~h.threw
  /\ ~h.out.threw
  /\ h.out.root = MapRef(h.keys, h.root)
  /\ \A i \in 1 .. Len(h.keys) :
       h.keys[i].t = "node" =>
         /\ h.out.R[i - 1].kind = h.heap[h.keys[i].n].kind
         /\ h.out.R[i - 1].items =
              [j \in 1 .. Len(h.heap[h.keys[i].n].items) |->
                 MapRef(h.keys, h.heap[h.keys[i].n].items[j])]

HyDone == hy.src = "graph" /\ hy.phase \in {"failed", "hydrated"}

\* C17 (as claimed): for every value graph of objects, arrays and primitives,
\* dehydrateValue and hydrateValue return and the result is deep-equal to the
\* input with the same reference structure.
C17_RoundTrip == HyDone => (hy.phase = "hydrated" /\ SameGraph(hy))

\* the objects and arrays a node refers to directly
Succ(items) == {r.n : r \in {items[j] : j \in 1 .. Len(items)} \cap
                          {NodeRef(n) : n \in 0 .. MaxNodes + MaxNodes * MaxItems}}

RECURSIVE ReachIn(_, _, _)
ReachIn(G, from, steps) ==
  IF steps = 0 THEN from
  ELSE ReachIn(G, from \cup UNION {Succ(G[n].items) : n \in from}, steps - 1)

\* node n of graph G (a function from names to [kind, items]) is reachable
\* from itself
OnCycle(G, n) ==
  n \in ReachIn(G, Succ(G[n].items), Cardinality(DOMAIN G))

\* C18 (as claimed): for a cyclic value graph (without null, which C17
\* covers) both functions return, and every object or array that lies on a
\* cycle of the input is reconstructed as one that lies on a cycle.
C18_CyclePreserved ==
  (hy.src = "graph" /\ hy.phase = "hydrated") =>
    \A i \in 1 .. Len(hy.keys) :
      (hy.keys[i].t = "node" /\ OnCycle(hy.heap, hy.keys[i].n)) =>
        /\ ~hy.out.threw
        /\ hy.out.R[i - 1].kind # "none"
        /\ OnCycle(hy.out.R, i - 1)

\* C19 (as claimed): hydrateValue throws on null, undefined, a table without
\* keys, and on a table that has keys but no entry 0.
C19_HydrationError ==
  (hy.src = "raw" /\ hy.phase = "hydrated") =>
    ((EmptyInput(hy.table) \/ 0 \notin DOMAIN hy.table.at) => hy.out.threw)


\* the values reachable from r in the order a depth-first walk meets them
\* first, each once
RECURSIVE FirstVisits(_, _, _)
RECURSIVE FirstVisitsOfItems(_, _, _)
FirstVisits(H, seen, r) ==
  IF InCache(seen, r) THEN seen
  ELSE IF r.t = "node" THEN FirstVisitsOfItems(H, Append(seen, r), H[r.n].items)
  ELSE Append(seen, r)

FirstVisitsOfItems(H, seen, items) ==
  IF items = <<>> THEN seen
  ELSE FirstVisitsOfItems(H, FirstVisits(H, seen, Head(items)), Tail(items))

Dehydrated == hy.src = "graph" /\ hy.phase \in {"dehydrated", "hydrated"}

\* C36: the table dehydrateValue returns has the root at id 0, the ids
\* 0 .. n-1 given in first-visit order, one id for each reference and each
\* primitive value, and inside an array or object entry only ids of the table,
\* each the id of the value at that place of the input.
C36_DehydratedWellFormed ==
  Dehydrated =>
    LET at == hy.table.at
        n == Len(hy.keys) IN
    /\ n >= 1
    /\ DOMAIN at = 0 .. n - 1
    /\ hy.keys[1] = hy.root
    /\ hy.keys = FirstVisits(hy.heap, <<>>, hy.root)
    /\ \A i, j \in 1 .. n : hy.keys[i] = hy.keys[j] => i = j
    /\ \A i \in 1 .. n :
         IF hy.keys[i].t = "node"
         THEN LET node == hy.heap[hy.keys[i].n] IN
              /\ at[i - 1].kind = node.kind
              /\ Len(at[i - 1].items) = Len(node.items)
              /\ \A j \in 1 .. Len(node.items) :
                   /\ at[i - 1].items[j] \in DOMAIN at
                   /\ hy.keys[at[i - 1].items[j] + 1] = node.items[j]
         ELSE at[i - 1] = PrimEntry(hy.keys[i])

\* an object that refers to itself, to an array and twice to one primitive
C36_Witness ==
  /\ Dehydrated
  /\ hy.root = NodeRef(1)
  /\ hy.heap[1] = [kind |-> "obj", items |-> <<NodeRef(2), NodeRef(1)>>]
  /\ hy.heap[2] = [kind |-> "arr", items |-> <<PrimRef(1), PrimRef(1)>>]
  /\ DOMAIN hy.table.at = 0 .. 2

(* ========================= createHandlerRegistry ======================== *)
\* part_002:41-57. rg.objs are the Map objects that exist, rg.refs[r] is the
\* Map that registry r holds in its `map` property, rg.parent[r] the registry
\* it was created from (0: none), rg.last the last call.
Regs == 1 .. MaxRegs
EmptyMap == [key \in AppKeys |-> NoHandler]

\* the entries of registry r
MapOf(g, r) == g.objs[g.refs[r]]

\* Mutant of createHandlerRegistry: the new registry holds the Map of its
\* parent.
createHandlerRegistryShared(g, parent) ==
  [g EXCEPT !.objs = Append(@, EmptyMap),
            !.refs = Append(@, IF parent = 0 THEN Len(g.objs) + 1
                               ELSE g.refs[parent]),
            !.parent = Append(@, parent),
            !.last = [op |-> "create", ref |-> Len(g.refs) + 1, from |-> parent]]

\* createHandlerRegistry(handlerRegistry?): new Map(handlerRegistry.map), or
\* new Map(undefined), an empty one
createHandlerRegistry(g, parent) ==
  [g EXCEPT !.objs = Append(@, IF parent = 0 THEN EmptyMap
                               ELSE MapOf(g, parent)),
            !.refs = Append(@, Len(g.objs) + 1),
            !.parent = Append(@, parent),
            !.last = [op |-> "create", ref |-> Len(g.refs) + 1, from |-> parent]]

\* register(key, handler) and set(key, value): map.set on the registry's Map
MapSet(g, r, key, h) ==
  [g EXCEPT !.objs[g.refs[r]][key] = h,
            !.last = [op |-> "set", ref |-> r, from |-> 0]]

otherThanRg == <<mcVars, disc, host, gcVars, hy, rt, ev, hb, fx>>

RgCreate ==
  /\ Len(rg.refs) < MaxRegs
  /\ \E parent \in 0 .. Len(rg.refs) : rg' = createHandlerRegistry(rg, parent)
  /\ UNCHANGED otherThanRg

RgSet ==
  /\ \E r \in 1 .. Len(rg.refs), key \in AppKeys, h \in HandlerIds :
       /\ MapOf(rg, r)[key] # h
       /\ rg' = MapSet(rg, r, key, h)
  /\ UNCHANGED otherThanRg

NextRg ==
  \/ RgCreate
  \/ RgSet

SpecRg == InitGC /\ [][NextRg]_vars

\* C31: a registry created from a parent starts with exactly the parent's
\* entries, and a register/set on one registry changes the entries of no
\* other one: not those of its parent, not those of a registry created from
\* it.
C31_RegistryCopyIndependent ==
  [][/\ (rg' # rg /\ rg'.last.op = "create" /\ rg'.last.from # 0) =>
          MapOf(rg', rg'.last.ref) = MapOf(rg, rg'.last.from)
     /\ (rg' # rg /\ rg'.last.op = "create") =>
          \A r \in 1 .. Len(rg.refs) : MapOf(rg', r) = MapOf(rg, r)
     /\ (rg' # rg /\ rg'.last.op = "set") =>
          \A r \in 1 .. Len(rg.refs) :
            r # rg'.last.ref => MapOf(rg', r) = MapOf(rg, r)]_vars

\* a child whose entry was set after the copy and whose parent's entry was
\* set after that
C31_Witness ==
  /\ Len(rg.refs) >= 2
  /\ rg.parent[2] = 1
  /\ MapOf(rg, 1) = [EmptyMap EXCEPT !["a"] = 1, !["b"] = 2]
  /\ MapOf(rg, 2) = [EmptyMap EXCEPT !["a"] = 2]
  /\ rg.last = [op |-> "set", ref |-> 1, from |-> 0]

(* ============ createEffectHandler over debounceWithAsyncQueue =========== *)
\* hooks.ts:252-298. fx.calls are the calls of the debounced function in
\* order, each with the promise it returned (`result`); fx.queue is the call
\* whose promise the variable `queue` holds (0: the resolved promise of
\* `empty`); fx.runs are the runs of effect(), each with how often its result
\* was handed to handleEffectResult.
EmptyVal == [t |-> "empty", r |-> 0]
UndefVal == [t |-> "undef", r |-> 0]
RunVal(r) == [t |-> "run", r |-> r]

NewCall == [st |-> "waiting", val |-> EmptyVal]
Settled(call) == call.st \in {"resolved", "rejected"}

\* what the handlers given to queue.then receive from the promise before
\* theirs: its value, or `empty` when it rejected
LastOf(f, k) ==
  IF k = 1 THEN EmptyVal
  ELSE IF f.calls[k - 1].st = "rejected" THEN EmptyVal
  ELSE f.calls[k - 1].val

\* Mutant of IsLatest: every call runs fn.
IsLatestAlways(f, k) == TRUE

\* queue === result
IsLatest(f, k) == f.queue = k

\* the debounced function is called: result = queue.then(...); queue = result
Debounced(f) ==
  [f EXCEPT !.calls = Append(@, NewCall), !.queue = Len(f.calls) + 1]

\* handleEffectResult(last): a Disposable is disposed, a function is called;
\* undefined is left alone
HandleEffectResult(f, last) ==
  IF last.t = "run"
  THEN [f EXCEPT !.runs[last.r].disposals = @ + 1]
  ELSE f

\* `if (!disposed) return await effect()` up to the call of effect();
\* otherwise `return undefined`
RunEffect(f, k) ==
  IF f.disposed
  THEN [f EXCEPT !.calls[k] = [st |-> "resolved", val |-> UndefVal]]
  ELSE [f EXCEPT !.calls[k].st = "running",
                 !.runs = Append(@, [by |-> k, st |-> "running",
                                     disposals |-> 0])]

otherThanFx == <<mcVars, disc, host, gcVars, hy, rt, ev, hb, rg>>

\* applyEffect()
FxApply ==
  /\ Len(fx.calls) < MaxFxCalls
  /\ fx' = Debounced(fx)
  /\ UNCHANGED otherThanFx

\* dispose(): disposed = true; return applyEffect()
FxDispose ==
  /\ Len(fx.calls) < MaxFxCalls
  /\ fx' = Debounced([fx EXCEPT !.disposed = TRUE])
  /\ UNCHANGED otherThanFx

\* the promise before call k's has settled and the handler given to then
\* runs: fn(last) when the call is the latest, the value passed on otherwise.
\* fn starts with `await handleEffectResult(last)` unless last is `empty`.
FxStart ==
  /\ \E k \in 1 .. Len(fx.calls) :
       /\ fx.calls[k].st = "waiting"
       /\ k > 1 => Settled(fx.calls[k - 1])
       /\ LET last == LastOf(fx, k) IN
          fx' = IF ~IsLatest(fx, k)
                  THEN [fx EXCEPT !.calls[k] = [st |-> "resolved", val |-> last]]
                ELSE IF last.t = "empty" THEN RunEffect(fx, k)
                ELSE [HandleEffectResult(fx, last)
                        EXCEPT !.calls[k].st = "cleaning"]
  /\ UNCHANGED otherThanFx

\* handleEffectResult has settled; a rejection goes to handleError
FxCleaned ==
  /\ \E k \in 1 .. Len(fx.calls) :
       /\ fx.calls[k].st = "cleaning"
       /\ fx' = RunEffect(fx, k)
  /\ UNCHANGED otherThanFx

\* effect() has settled: with a result to dispose of, with undefined, or by
\* throwing (handleError(err); throw err)
FxEffectDone ==
  /\ \E k \in 1 .. Len(fx.calls), how \in {"result", "void", "threw"} :
       /\ fx.calls[k].st = "running"
       /\ LET r == Len(fx.runs) IN
          fx' = [fx EXCEPT
                   !.runs[r].st = how,
                   !.calls[k] =
                     IF how = "threw" THEN [st |-> "rejected", val |-> EmptyVal]
                     ELSE IF how = "void"
                       THEN [st |-> "resolved", val |-> UndefVal]
                     ELSE [st |-> "resolved", val |-> RunVal(r)]]
  /\ UNCHANGED otherThanFx

NextFx ==
  \/ FxApply
  \/ FxDispose
  \/ FxStart
  \/ FxCleaned
  \/ FxEffectDone

SpecFx == InitGC /\ [][NextFx]_vars

(* ==================== claims on the effect handler ====================== *)
InProgress(call) == call.st \in {"cleaning", "running"}
FxCalls == 1 .. Len(fx.calls)
FxRuns == 1 .. Len(fx.runs)

\* C40: of one effect handler at most one call is cleaning up or running
\* the effect, and only when all calls before it have settled; a result is
\* disposed of at most once, and exactly once before the next run of the
\* effect starts and once a dispose() has been worked off; a call that is not
\* the latest when its turn comes runs neither cleanup nor effect; and no run
\* of the effect starts after dispose().
C40_EffectsSerialized ==
  /\ [](/\ \A j, k \in FxCalls :
            (InProgress(fx.calls[j]) /\ InProgress(fx.calls[k])) => j = k
        /\ \A k \in FxCalls :
            fx.calls[k].st # "waiting" =>
              \A j \in 1 .. k - 1 : Settled(fx.calls[j])
        /\ \A r \in FxRuns :
            /\ fx.runs[r].disposals <= 1
            /\ fx.runs[r].disposals = 1 => fx.runs[r].st = "result"
            /\ (r < Len(fx.runs) /\ fx.runs[r].st = "result") =>
                 fx.runs[r].disposals = 1
            /\ r < Len(fx.runs) => fx.runs[r].by < fx.runs[r + 1].by
        /\ (fx.disposed /\ \A k \in FxCalls : Settled(fx.calls[k])) =>
            \A r \in FxRuns :
              fx.runs[r].st = "result" => fx.runs[r].disposals = 1)
  /\ [][/\ \A k \in FxCalls :
            (/\ fx.calls[k].st = "waiting"
             /\ fx'.calls[k].st # "waiting"
             /\ fx.queue # k) => fx'.runs = fx.runs
        /\ fx.disposed => Len(fx'.runs) = Len(fx.runs)]_vars

\* three calls made while nothing had run: the second was passed over, the
\* third disposed of the first run's result and ran the effect again
C40_Witness ==
  /\ Len(fx.calls) = 3
  /\ Len(fx.runs) = 2
  /\ fx.runs[1] = [by |-> 1, st |-> "result", disposals |-> 1]
  /\ fx.runs[2].by = 3
  /\ fx.calls[2] = [st |-> "resolved", val |-> RunVal(1)]
  /\ ~fx.disposed

(* ========================== routeMessageChannel ========================= *)
\* env.ts:298-347 and registryAsHandlers. rt is the receiving side of one
\* base channel: its registry, the route registries handed to
\* routeMessageChannel, and the requests the peer sent it.

\* handlerRegistry.set / register on the base channel's registry
RtSetBase(key) ==
  /\ rt.base[key] = NoRtHandler
  /\ rt' = [rt EXCEPT !.base[key] = RtHandler("base", key)]

\* register on the registry of route r; routeHandlers reads it when invoked
RtSetRoute(r, key) ==
  /\ rt.routes[r][key] = NoRtHandler
  /\ rt' = [rt EXCEPT !.routes[r][key] = RtHandler(r, key)]

\* routeMessageChannel(messageChannel, routeRegistries) on the receiving side:
\* routeHandlers is built from the routes of the map, the routed handler is
\* registered under ROUTED_REQUEST
RtRoute(routes) ==
  /\ rt.calls < MaxRouteCalls
  /\ rt' = [rt EXCEPT !.known = routes, !.calls = @ + 1,
                      !.base[ROUTED_REQUEST] = RoutedHandler]

\* the frame of a request whose response has not been made
RtFrame(route, frameKey, key, body) ==
  [route |-> route, frameKey |-> frameKey, key |-> key, body |-> body,
   st |-> "sent", isError |-> FALSE, by |-> NoRtHandler, why |-> ""]

\* result.get(route).handlers.invoke(handlerKey, body) on the requesting side:
\* messageChannel.handlers.invoke(ROUTED_REQUEST, {route, handlerKey, body})
RtInvoke(route, key, body) ==
  /\ Len(rt.reqs) < MaxRouted
  /\ rt' = [rt EXCEPT !.reqs = Append(@, RtFrame(route, ROUTED_REQUEST, key, body))]

\* a request made on the base channel itself
RtRequest(key, body) ==
  /\ Len(rt.reqs) < MaxRouted
  /\ rt' = [rt EXCEPT !.reqs = Append(@, RtFrame("", key, key, body))]

\* Mutant of RouteLookup: the route of the envelope is not used, the handler
\* is looked up in the registry of the first known route.
RouteLookupAnyRoute(r, route, key) ==
  IF r.known = {} THEN [h |-> NoRtHandler, why |-> "no handlers known for given route"]
  ELSE LET first == CHOOSE x \in r.known : \A y \in r.known : x = "r1" \/ y # "r1" IN
       IF r.routes[first][key] = NoRtHandler
       THEN [h |-> NoRtHandler, why |-> "missing handler"]
       ELSE [h |-> r.routes[first][key], why |-> ""]

\* Mutant of getRequiredHandler: an unset key yields no handler and no error.
getRequiredHandlerLenient(map, key) == [h |-> map[key], why |-> ""]

\* registryAsHandlers' getRequiredHandler: handlerRegistry.map.get(key), read
\* when invoke / request is called; throws when nothing is set
getRequiredHandler(map, key) ==
  IF map[key] = NoRtHandler
  THEN [h |-> NoRtHandler, why |-> "missing handler"]
  ELSE [h |-> map[key], why |-> ""]

\* the routed handler: routeHandlers.get(route), then registryAsHandlers'
\* invoke on the registry of that route
RouteLookup(r, route, key) ==
  IF route \notin r.known
  THEN [h |-> NoRtHandler, why |-> "no handlers known for given route"]
  ELSE getRequiredHandler(r.routes[route], key)

\* the REQUEST branch of messageHandler: handlerRegistry.map.get(key) on the
\* base registry, with the frame's key
BaseLookup(r, req) ==
  IF r.base[req.frameKey] = NoRtHandler
  THEN [h |-> NoRtHandler, why |-> "no handler"]
  ELSE IF r.base[req.frameKey] = RoutedHandler
       THEN RouteLookup(r, req.route, req.key)
       ELSE [h |-> r.base[req.frameKey], why |-> ""]

\* the receiving side handles request i and responds; a handler that is found
\* may throw
RtServe(i, throws) ==
  /\ i \in 1 .. Len(rt.reqs)
  /\ rt.reqs[i].st = "sent"
  /\ LET found == BaseLookup(rt, rt.reqs[i]) IN
     /\ throws => found.h # NoRtHandler
     /\ rt' = [rt EXCEPT !.reqs[i] =
                 [@ EXCEPT !.st = "served", !.by = found.h,
                           !.isError = (found.why # "" \/ throws),
                           !.why = IF throws THEN "threw" ELSE found.why]]

InitRt == CoreIdle /\ RestIdle

otherThanRt == <<mcVars, disc, host, gcVars, hy, moreVars>>

RtSetBaseAny == (\E k \in AppKeys : RtSetBase(k)) /\ UNCHANGED otherThanRt
RtSetRouteAny ==
  /\ \E r \in Routes, k \in AppKeys : RtSetRoute(r, k)
  /\ UNCHANGED otherThanRt
RtRouteAny ==
  /\ \E routes \in SUBSET Routes : routes # {} /\ RtRoute(routes)
  /\ UNCHANGED otherThanRt
RtInvokeAny ==
  /\ \E r \in Routes, k \in AppKeys : RtInvoke(r, k, 1)
  /\ UNCHANGED otherThanRt
RtRequestAny == (\E k \in AppKeys : RtRequest(k, 1)) /\ UNCHANGED otherThanRt
RtServeAny ==
  /\ \E i \in 1 .. MaxRouted, throws \in BOOLEAN : RtServe(i, throws)
  /\ UNCHANGED otherThanRt

NextRt ==
  \/ RtSetBaseAny
  \/ RtSetRouteAny
  \/ RtRouteAny
  \/ RtInvokeAny
  \/ RtRequestAny
  \/ RtServeAny

SpecRt == InitRt /\ [][NextRt]_vars

(* ====================== claims on routeMessageChannel =================== *)
\* C20: a request made through the sub-channel of route R for key K is
\* answered by the handler set under K in the registry of R on the receiving
\* side and by no other; when the receiving side knows no route R, or R's
\* registry has no handler for K, the answer is an error.
C20_RouteIsolation ==
  [][\A i \in 1 .. Len(rt.reqs) :
       (/\ rt.reqs[i].st = "sent" /\ rt'.reqs[i].st = "served"
        /\ rt.reqs[i].frameKey = ROUTED_REQUEST) =>
         LET route == rt.reqs[i].route
             key == rt.reqs[i].key IN
         IF /\ rt.base[ROUTED_REQUEST] = RoutedHandler
            /\ route \in rt.known
            /\ rt.routes[route][key] # NoRtHandler
         THEN /\ rt'.reqs[i].by = RtHandler(route, key)
              /\ rt'.reqs[i].isError = (rt'.reqs[i].why = "threw")
         ELSE /\ rt'.reqs[i].by = NoRtHandler
              /\ rt'.reqs[i].isError]_vars

\* C20 witness: the same key is set in the base registry and in both routes;
\* a request through route r2 was answered by r2's handler, and a request
\* through a route the receiving side does not know got an error.
C20_Witness ==
  /\ \A r \in Routes : rt.routes[r]["a"] # NoRtHandler
  /\ rt.base["a"] # NoRtHandler
  /\ rt.known = {"r2"}
  /\ \E i, j \in 1 .. Len(rt.reqs) :
       /\ rt.reqs[i].route = "r2" /\ rt.reqs[i].key = "a"
       /\ rt.reqs[i].st = "served" /\ ~rt.reqs[i].isError
       /\ rt.reqs[i].by = RtHandler("r2", "a")
       /\ rt.reqs[j].route = "r1" /\ rt.reqs[j].st = "served"
       /\ rt.reqs[j].isError

\* C21: a registry-backed invoke for a key that is not set in the registry
\* when it is called fails with a 'missing handler' error: no handler runs and
\* the caller gets an error, never a successful empty result.
C21_MissingHandlerFails ==
  [][\A i \in 1 .. Len(rt.reqs) :
       (/\ rt.reqs[i].st = "sent" /\ rt'.reqs[i].st = "served"
        /\ rt.reqs[i].frameKey = ROUTED_REQUEST
        /\ rt.base[ROUTED_REQUEST] = RoutedHandler
        /\ rt.reqs[i].route \in rt.known
        /\ rt.routes[rt.reqs[i].route][rt.reqs[i].key] = NoRtHandler) =>
         /\ rt'.reqs[i].isError
         /\ rt'.reqs[i].why = "missing handler"
         /\ rt'.reqs[i].by = NoRtHandler]_vars

\* C21 witness: an invoke on a known route whose registry had no handler for
\* the key was answered with the missing-handler error, although the base
\* registry and the other route have a handler under that key.
C21_Witness ==
  /\ rt.known = Routes
  /\ rt.base["a"] # NoRtHandler
  /\ rt.routes["r2"]["a"] # NoRtHandler
  /\ rt.routes["r1"]["a"] = NoRtHandler
  /\ \E i \in 1 .. Len(rt.reqs) :
       /\ rt.reqs[i].route = "r1" /\ rt.reqs[i].key = "a"
       /\ rt.reqs[i].st = "served" /\ rt.reqs[i].why = "missing handler"

(* ================= MessageChannel: inbound frames and events ============ *)
\* env.ts:181-227 and on / once. The frames put into messageHandler are any
\* JSON the transport delivers, with or without source: 'MessageChannel'.
EventNames == {"message", "custom"}

\* a frame of a type other than REQUEST and RESPONSE
EventFrame(type) ==
  [source |-> "MessageChannel", n |-> Null, type |-> type, key |-> "",
   body |-> Val(1), rn |-> Null, isError |-> FALSE]

\* the same frame as sent by something that is not a Message Channel
Foreign(m) == [m EXCEPT !.source = "other"]

ChannelFrames ==
  {ReqFrame(n, key, Val(1)) : n \in {Null, 0}, key \in AppKeys}
    \cup {RespFrame(rn, isError, Val(1)) : rn \in {0, 1}, isError \in BOOLEAN}
    \cup {EventFrame("custom")}

InboundFrames == ChannelFrames \cup {Foreign(m) : m \in ChannelFrames}

\* eventEmitter.emit(name, ...): every `on` listener and every `once`
\* listener of the name is called; the `once` listeners are removed
Emit(e, name, m) ==
  [e EXCEPT
     !.log = @ \o (IF name \in e.on
                   THEN <<[event |-> name, to |-> "on", source |-> m.source,
                           type |-> m.type]>>
                   ELSE <<>>)
               \o (IF name \in e.once
                   THEN <<[event |-> name, to |-> "once", source |-> m.source,
                           type |-> m.type]>>
                   ELSE <<>>),
     !.once = @ \ {name}]

\* on(key, callback) / once(key, callback)
EvOn(name) ==
  /\ name \notin ev.on
  /\ ev' = [ev EXCEPT !.on = @ \cup {name}]
  /\ UNCHANGED <<mcVars, disc, host, gcVars, hy, rt, hb, rg, fx>>

EvOnce(name) ==
  /\ name \notin ev.once
  /\ ev' = [ev EXCEPT !.once = @ \cup {name}]
  /\ UNCHANGED <<mcVars, disc, host, gcVars, hy, rt, hb, rg, fx>>

\* eventEmitter.emit('message', m) at the end of messageHandler
AfterBranches(e, m) == Emit(e, "message", m)

\* messageHandler(m) up to its first await or its end.
\*   source 'MessageChannel', REQUEST: the handler lookup; a missing handler
\*     is answered at once and messageHandler runs to its end, a found
\*     handler is awaited (EvHandlerDone);
\*   RESPONSE: settles the pending request; an unexpected one throws, which
\*     leaves messageHandler before its last line;
\*   any other type: emit(message.type, message);
\*   any other source: none of the branches.
EvMessageHandler(c, m) ==
  /\ ev.frames < MaxFrames
  /\ LET e == [ev EXCEPT !.frames = @ + 1, !.last = m] IN
     IF m.source = "MessageChannel"
     THEN IF m.type = REQUEST
          THEN /\ ReceiveRequest(c, m.n, m.key, m.body)
               /\ ev' = IF GetHandler(c, m.key) = NoHandler
                          THEN AfterBranches(e, m) ELSE e
          ELSE IF m.type = RESPONSE
          THEN /\ ReceiveResponse(c, m.rn, m.isError, m.body)
               /\ ev' = IF LookupResponseHandler(c, m.rn) = Null
                          THEN e ELSE AfterBranches(e, m)
          ELSE /\ UNCHANGED mcVars
               /\ ev' = AfterBranches(Emit(e, m.type, m), m)
     ELSE /\ UNCHANGED mcVars
          /\ ev' = AfterBranches(e, m)
  /\ UNCHANGED <<disc, host, gcVars, hy, rt, hb, rg, fx>>

\* messageHandler after `await requestHandler(body)`: respond, then the
\* last line
EvHandlerDone(c, i, ok) ==
  /\ HandlerDone(c, i, ok)
  /\ ev' = AfterBranches(ev, ReqFrame(chInv[c][i].n, chInv[c][i].key,
                                      chInv[c][i].body))
  /\ UNCHANGED <<disc, host, gcVars, hy, rt, hb, rg, fx>>

\* request() on the channel, so that frames find pending requests
EvRequest ==
  /\ Request(MCChan, "a", Val(1))
  /\ UNCHANGED nonMC

EvOnAny == \E name \in EventNames : EvOn(name)
EvOnceAny == \E name \in EventNames : EvOnce(name)
EvMessageHandlerAny == \E m \in InboundFrames : EvMessageHandler(MCChan, m)
EvHandlerDoneAny ==
  \E i \in 1 .. MaxInv, ok \in BOOLEAN : EvHandlerDone(MCChan, i, ok)

NextEv ==
  \/ EvOnAny
  \/ EvOnceAny
  \/ EvMessageHandlerAny
  \/ EvHandlerDoneAny
  \/ EvRequest

SpecEv == InitMC /\ [][NextEv]_vars

(* ==================== claims on inbound frames ========================== *)
\* a run of messageHandler on a frame whose source is not 'MessageChannel'
ForeignFrameStep ==
  ev'.frames = ev.frames + 1 /\ ev'.last.source # "MessageChannel"

\* C23 (as claimed): a frame whose source is not 'MessageChannel' invokes no
\* handler, sends no response, touches no pending request and publishes no
\* event to any on / once listener.
C23_ForeignFrameIgnored ==
  [][ForeignFrameStep =>
       /\ chInv' = chInv
       /\ chTable' = chTable /\ chReqs' = chReqs /\ chRespRun' = chRespRun
       /\ chRegistry' = chRegistry /\ chN' = chN
       /\ ev'.log = ev.log /\ ev'.once = ev.once]_vars

(* ============ claims on the passes of discoverMessageChannel ============ *)
Passes == 1 .. Len(disc.passes)
RunningPasses == {p \in Passes : disc.passes[p].st = "running"}
ExploringPasses == {disc.sockets[i].pass : i \in Connecting}

\* C25: at most one pass is running and only that pass has connection
\* attempts in flight; a pass starts only when every pass that arrived before
\* it is over, and never after the discovery has resolved or rejected.
C25_PassesSerialized ==
  /\ [](/\ Cardinality(RunningPasses) <= 1
        /\ Cardinality(ExploringPasses) <= 1
        /\ ExploringPasses \subseteq RunningPasses)
  /\ [][\A p \in 1 .. Len(disc'.passes) :
          (/\ disc'.passes[p].st = "running"
           /\ p \in Passes => disc.passes[p].st # "running") =>
            /\ disc.resolves = 0 /\ disc.rejects = 0
            /\ \A q \in 1 .. p - 1 : disc'.passes[q].st = "done"]_vars

\* C25 witness: snapshots arrived in a burst: the first pass is over, the
\* second has attempts in flight, the third waits in the queue.
C25_Witness ==
  /\ Len(disc.passes) = 3
  /\ disc.passes[1].st = "done"
  /\ disc.passes[2].st = "running" /\ ExploringPasses = {2}
  /\ disc.passes[3].st = "queued"
  /\ \E i \in DSockets : disc.sockets[i].pass = 1

\* C26 (as claimed): no endpoint is attempted twice within one discovery.
C26_OnlyNewEndpoints ==
  \A i, j \in DSockets :
    disc.sockets[i].port = disc.sockets[j].port => i = j

\* C27: a timeout that fires while a pass has attempts in flight rejects
\* nothing at that moment, its rejection waits in the queue; when discovery
\* has rejected no pass is running and no attempt is in flight, and none is
\* started or opens afterwards.
C27_TimeoutAfterPass ==
  /\ [][(disc.timer = "armed" /\ disc'.timer = "fired" /\ Connecting # {}) =>
          /\ disc'.rejects = 0
          /\ disc'.sockets = disc.sockets
          /\ \E j \in 1 .. Len(disc'.queue) : disc'.queue[j].kind = "timeout"]_vars
  /\ [](disc.rejects >= 1 => Connecting = {} /\ RunningPasses = {})
  /\ [][disc.rejects >= 1 => disc'.sockets = disc.sockets]_vars

\* C27 witness: the timeout fired while a pass was exploring two hosts: its
\* rejection is queued and nothing is rejected yet.
C27_Witness ==
  /\ disc.timer = "fired" /\ TimeoutQueued
  /\ Cardinality(Connecting) = 2
  /\ disc.rejects = 0 /\ disc.resolves = 0

(* ======================= claims on the heartbeat ======================== *)
\* a run of the interval callback of socket c
HbTickStep(c) ==
  /\ hb[c].st = "open" /\ hb[c].due <= 0
  /\ \/ hb'[c].st = "closing"
     \/ hb'[c].st = "open" /\ hb'[c].due = HOST_HEARTBEAT_MS
                           /\ hb'[c].sinceSent = 0

\* C24 (as claimed): a heartbeat tick that finds that no ping and no pong
\* was observed for a whole interval closes the connection, at that tick.
C24_ClosedAtSilentTick ==
  [][\A c \in Chans :
       (HbTickStep(c) /\ hb[c].sinceReceived >= HOST_HEARTBEAT_MS) =>
         hb'[c].st = "closing"]_vars

\* C28: once the peer of an accepted connection has vanished, the
\* connection is eventually closed by the heartbeat and its channel is no
\* longer in the Connection Set.
C28_VanishedPeerRemoved ==
  \A c \in Chans :
    (hb[c].peer = "vanished") ~>
      (hb[c].st = "closed" /\ c \notin SeqToSet(host.connections))

\* C28 witness: the peer of one connection vanished, the heartbeat closed
\* the connection and its channel left the Connection Set, while the
\* connection of a peer that is there stays in it.
C28_Witness ==
  \E c, d \in Chans :
    /\ hb[c].peer = "vanished" /\ hb[c].st = "closed"
    /\ c \notin SeqToSet(host.connections)
    /\ hb[d].peer = "alive" /\ hb[d].st = "open"
    /\ d \in SeqToSet(host.connections)

(* ===================== claims on the Connection Set ===================== *)
\* the accepted connections whose socket has not emitted 'close'
LiveConnections == {c \in Chans : chState[c] = "open"}

\* C29: the Connection Set holds, once each, exactly the channels of the
\* accepted connections whose transport has not emitted close; only an
\* accept adds a channel and only a transport close removes one.
C29_ConnectionSetExact ==
  /\ [](/\ SeqToSet(host.connections) = LiveConnections
        /\ Cardinality(SeqToSet(host.connections)) = Len(host.connections))
  /\ [][host'.connections # host.connections =>
          \E c \in Chans :
            \/ /\ chState[c] = "none" /\ chState'[c] = "open"
               /\ host'.connections = Append(host.connections, c)
            \/ /\ chState[c] = "open" /\ chState'[c] = "closed"
               /\ host'.connections = SeqRemove(host.connections, c)]_vars

\* C29 witness: after a broadcast, an error response and close(), one
\* accepted connection has closed and left the set, the other is still in it.
C29_Witness ==
  /\ host.closed
  /\ host.broadcasts # <<>>
  /\ \E c, d \in Chans :
       /\ chState[c] = "closed" /\ c \notin SeqToSet(host.connections)
       /\ chState[d] = "open" /\ host.connections = <<d>>
       /\ \E k \in 1 .. Len(chReqs[d]) : chReqs[d][k].status = "rejected"

(* ================ claims on responses that cannot be sent =============== *)
\* the runs of messageHandler whose RESPONSE frame the transport refused
Undelivered(invs) ==
  {i \in 1 .. Len(invs) : \E j \in 1 .. Len(invs[i].resp) : ~invs[i].resp[j].sent}

\* C30: a RESPONSE frame that cannot be sent because the transport is closed
\* is dropped: nothing is raised, the run of messageHandler ends as it would
\* have (the handler has run), there is one respond call and no later one,
\* and the step changes nothing else of the channel, so that the runs still
\* in flight go on.
C30_ResponseFailureDiscarded ==
  /\ [](\A i \in Undelivered(chInv[MCChan]) :
          LET inv == chInv[MCChan][i] IN
          /\ chState[MCChan] = "closed"
          /\ Len(inv.resp) = 1
          /\ ~inv.resp[1].raised
          /\ inv.st \in {"returned", "threw", "nohandler"}
          /\ inv.st = "returned" =>
               inv.resp[1].frame =
                 RespFrame(inv.n, FALSE, HandlerResult(inv.h, inv.body)))
  /\ [][/\ \A i \in Undelivered(chInv[MCChan]) :
             chInv'[MCChan][i] = chInv[MCChan][i]
        /\ Undelivered(chInv'[MCChan]) # Undelivered(chInv[MCChan]) =>
             /\ chRegistry' = chRegistry /\ chTable' = chTable
             /\ chReqs' = chReqs /\ chN' = chN /\ chState' = chState
             /\ Len(chInv'[MCChan]) = Len(chInv[MCChan])
             /\ \A i \in 1 .. Len(chInv[MCChan]) :
                  i \notin Undelivered(chInv'[MCChan]) =>
                    chInv'[MCChan][i] = chInv[MCChan][i]]_vars

\* C30 witness: the transport closed while two handlers were running; the
\* response of the first could not be sent, and the second run was still
\* completed after that, one by a return and one by a throw.
C30_Witness ==
  /\ Undelivered(chInv[MCChan]) = {1, 2}
  /\ chInv[MCChan][1].st = "returned"
  /\ chInv[MCChan][2].st = "threw"

(* ===================== claims on sequence numbers ======================= *)
\* C32: the numbers of the requests of a channel are distinct and below n,
\* in call order; while no send has failed the k-th request carries k; every
\* call of request() takes the current n and adds one to it, whether or not
\* its send fails, and a notify frame leaves n alone.
C32_SequenceNumbers ==
  /\ [](LET reqs == chReqs[MCChan] IN
        /\ \A i \in 1 .. Len(reqs) : reqs[i].n \in 0 .. chN[MCChan] - 1
        /\ \A i, j \in 1 .. Len(reqs) : i < j => reqs[i].n < reqs[j].n
        /\ chState[MCChan] = "open" =>
             /\ chN[MCChan] = Len(reqs)
             /\ \A i \in 1 .. Len(reqs) : reqs[i].n = i - 1)
  /\ [][/\ chN'[MCChan] \in {chN[MCChan], chN[MCChan] + 1}
        /\ Len(chReqs'[MCChan]) = Len(chReqs[MCChan]) + 1 =>
             /\ chReqs'[MCChan][Len(chReqs'[MCChan])].n = chN[MCChan]
             /\ chN'[MCChan] = chN[MCChan] + 1
        /\ chNotes' # chNotes => chN' = chN]_vars

\* C32 witness: a request was made and a notify frame sent, the transport
\* closed, and two more calls of request(), whose sends failed, have each
\* used up a number.
C32_Witness ==
  /\ Len(chReqs[MCChan]) = 1
  /\ chNotes[MCChan] # <<>>
  /\ chN[MCChan] = 3
  /\ chState[MCChan] = "closed"

(* ============= claims on requests pending at transport close =========== *)
PendingAt(c) == {k \in 1 .. Len(chReqs[c]) : chReqs[c][k].status = "pending"}

\* the transport's close settles no request, a request pending on a closed
\* transport is in the correlation table with its timer armed, and only its
\* own timeout settles it
CloseSettlesNoRequest ==
  /\ [][\A c \in Chans :
          (chState[c] = "open" /\ chState'[c] = "closed") =>
            chReqs'[c] = chReqs[c] /\ chTable'[c] = chTable[c]]_vars
  /\ [](\A c \in Chans :
          chState[c] = "closed" =>
            \A k \in PendingAt(c) :
              /\ chReqs[c][k].n \in DOMAIN chTable[c]
              /\ chTable[c][chReqs[c][k].n] = k
              /\ chReqs[c][k].timer = "armed")
  /\ [][\A c \in Chans :
          chState[c] = "closed" =>
            \A k \in PendingAt(c) :
              chReqs'[c][k].status # "pending" =>
                /\ TimeoutDue(chReqs[c][k])
                /\ chReqs'[c][k].status = "rejected"
                /\ chReqs'[c][k].value = TimeoutError]_vars

\* C38 (as claimed): the close of a transport settles none of the requests
\* pending on it, each stays in the correlation table until its own timeout
\* rejects it, and a broadcast that addressed the connection is not settled
\* as long as that request is pending.
C38_CloseSettlesNothing ==
  /\ CloseSettlesNoRequest
  /\ [](\A slots \in Broadcasts :
          (\E j \in 1 .. Len(slots) :
             /\ chState[slots[j].c] = "closed"
             /\ SlotReq(slots[j]).status = "pending") =>
            PromiseAllStatus(slots) = "pending")

(* ============ claims on the reads and writes of entry files ============= *)
\* closure w runs eventTriggered(f) in this step
ReadsFile(w, f) ==
  /\ gcW[w].st = "open"
  /\ gcW[w].events # <<>>
  /\ Head(gcW[w].events) = f
  /\ gcW'[w].st = "open"
  /\ gcW'[w].events = Tail(gcW[w].events)

ErrorsQueued(p) ==
  Cardinality({i \in 1 .. Len(gcImm[p]) : gcImm[p][i].kind = "error"})

\* C34 (as claimed): a read of an entry file that is missing or whose content
\* does not parse leaves the entry out of the cache and calls no
\* handleUnexpectedError, so that nothing reaches onError.
C34_UnreadableIsAbsent ==
  [][\A w \in Watchers, f \in Files :
       (ReadsFile(w, f) /\ gcFiles[f] # "file") =>
         /\ f \notin gcW'[w].cache
         /\ gcImm'[gcW[w].p] = Append(gcImm[gcW[w].p], EmitItem(w))]_vars

\* C35 (as claimed): a file is written once and afterwards only deleted, no
\* write goes to a path that exists, and no read of a watcher meets a file
\* whose content is not the complete payload.
C35_WritesAtomic ==
  [][/\ \A f \in Files :
          /\ gcFiles[f] = "file" => gcFiles'[f] \in {"file", "unlinked"}
          /\ gcFiles[f] = "unlinked" => gcFiles'[f] = "unlinked"
          /\ gcFiles[f] = "partial" => gcFiles'[f] \in {"partial", "file"}
     /\ \A w \in Watchers, f \in Files :
          ReadsFile(w, f) => gcFiles[f] # "partial"]_vars

(* =========== claims on how the subscribers are called ================== *)
\* onChange of subscriber s was called in this step
OnChangeCalled(s) ==
  \/ gcSub'[s].got # gcSub[s].got
  \/ gcSub'[s].first # gcSub[s].first
  \/ gcSub'[s].last # gcSub[s].last
  \/ gcSub'[s].value # gcSub[s].value

\* onError of subscriber s, the reject of getAllGlobalContexts, was called
OnErrorCalled(s) ==
  /\ gcSub[s].promise = "pending"
  /\ gcSub'[s].promise = "rejected"
  /\ gcSub'[s].timer = gcSub[s].timer

\* the step is one setImmediate callback of process p and nothing else
ImmediateStep(p) ==
  /\ gcImm[p] # <<>>
  /\ gcImm' = [gcImm EXCEPT ![p] = Tail(@)]
  /\ ~Busy(p)
  /\ gcFiles' = gcFiles
  /\ \A w \in Watchers :
       /\ gcW'[w].cache = gcW[w].cache
       /\ gcW'[w].unlinked = gcW[w].unlinked

\* C33: onChange and onError of a subscriber run only in a setImmediate
\* callback: never in the step of a watch call, of the directory-change
\* callback or of the sweep, and never while the cache is being changed.
C33_SubscribersCalledAsync ==
  [][\A s \in Subs :
       (OnChangeCalled(s) \/ OnErrorCalled(s)) =>
         \E p \in WProcs : ImmediateStep(p)]_vars

C33_Witness ==
  \E s, t \in Subs :
    /\ gcSub[s].kind = "watch"
    /\ gcSub[s].got
    /\ gcSub[s].last # gcSub[s].first
    /\ gcSub[t].kind = "getAll"
    /\ gcSub[t].promise = "rejected"
    /\ \E w \in Watchers : gcW[w].unlinked # {}

\* C37 (as claimed): once the unsubscribe function of a watch call has been
\* called, the subscriber's onChange is not called again, neither by an emit
\* nor by the first notification queued before the call.
C37_SilentAfterUnsubscribe ==
  [][\A s \in Subs :
       (gcSub[s].kind = "watch" /\ gcSub[s].unsubs > 0) =>
         ~OnChangeCalled(s)]_vars

\* the part of C37 that holds: an emit that runs after the unsubscribe does
\* not reach the subscriber
EmitSkipsUnsubscribed ==
  [][\A s \in Subs, p \in WProcs :
       (/\ gcSub[s].kind = "watch" /\ gcSub[s].unsubs > 0
        /\ gcImm[p] # <<>> /\ Head(gcImm[p]).kind = "emit"
        /\ gcImm'[p] = Tail(gcImm[p])) =>
         ~OnChangeCalled(s)]_vars

(* ==================== claims on the terminate handlers ================== *)
\* a REQUEST frame for key was handled on connection c in this step
TerminateHandled(c, key) ==
  /\ Len(chInv'[c]) = Len(chInv[c]) + 1
  /\ chInv'[c][Len(chInv'[c])].key = key

LocallyHandled(key) ==
  /\ Len(host'.local) = Len(host.local) + 1
  /\ host'.local[Len(host'.local)] = key

CloseScheduled == host'.immediates = host.immediates + 1
NothingScheduled == host'.immediates = host.immediates

\* C39: the terminate-unused-host handler schedules close() exactly when the
\* Connection Set is empty as it runs, the terminate-any-host handler always
\* does; a terminate-unused-host request handled on an accepted connection
\* never schedules it, that connection being in the set.
C39_TerminateUnusedNeedsEmptySet ==
  [][/\ \A c \in Chans :
          /\ TerminateHandled(c, "terminate-unused-host") =>
               /\ c \in SeqToSet(host.connections)
               /\ NothingScheduled
          /\ TerminateHandled(c, "terminate-any-host") => CloseScheduled
     /\ LocallyHandled("terminate-unused-host") =>
          IF Len(host.connections) = 0 THEN CloseScheduled ELSE NothingScheduled
     /\ LocallyHandled("terminate-any-host") => CloseScheduled
     /\ (host'.immediates > host.immediates) =>
          host'.terminates = host.terminates + 1]_vars

C39_Witness ==
  /\ host.local = <<"terminate-unused-host">>
  /\ host.immediates = 1
  /\ host.terminates = 2
  /\ \E c \in Chans :
       /\ chState[c] = "closed"
       /\ Len(chInv[c]) = 1
       /\ chInv[c][1].key = "terminate-unused-host"

(* ================= claims on the host's Handler Registry ================ *)
\* C22 (as claimed): a request arriving on an accepted connection is handled
\* by the handler the host's registry holds for its key at that moment, also
\* when that handler was registered or replaced after the connection was
\* accepted.
C22_SharedRegistry ==
  [][\A c \in Chans :
       (/\ c \in SeqToSet(host.connections)
        /\ Len(chInv'[c]) = Len(chInv[c]) + 1) =>
         LET inv == chInv'[c][Len(chInv'[c])] IN
         inv.h = host.registry[inv.key]]_vars

====
